---------------------------- MODULE Spec2Model ----------------------------
(***************************************************************************)
(* Cloud Economizer: the aggregation engine (CloudAnalyzer), the provider  *)
(* probes that feed it, the recommendation engine (InsightEngine) and the  *)
(* script generator.                                                       *)
(*                                                                         *)
(* Python dicts are modelled as association lists: a sequence of           *)
(* [key, val] entries in insertion order, which is the iteration order of  *)
(* a dict.  A dict whose keys are a few fixed strings and may be missing   *)
(* (a category payload, a configuration section) is a TLA+ function whose  *)
(* DOMAIN is the set of keys present.                                      *)
(*                                                                         *)
(* Money is a Python float: an IEEE 754 binary64 number, every sum,        *)
(* product and quotient rounded to nearest, ties to even.  A float is the  *)
(* record [m, e] that stands for m * 2^e, with m a natural number of       *)
(* exactly 53 bits, or [<<>>, 0] for zero; a natural number is the         *)
(* sequence of its digits in base 2^15, lowest first, without leading      *)
(* zeros.  The amounts of the program are non-negative and far from the    *)
(* ends of the exponent range, so signs, subnormals and infinities do not  *)
(* occur.  A Python int that meets a float in a sum or a comparison is     *)
(* converted exactly, and is held as the float of the same value.          *)
(***************************************************************************)
EXTENDS Integers, Sequences, FiniteSets, TLC

VARIABLES
    config,                 \* CloudAnalyzer.config (sections: aws, azure, gcp, ai)
    api_key,                \* whether OPENAI_API_KEY is set in the environment
    results,                \* CloudAnalyzer.results
    pc,                     \* position inside CloudAnalyzer.analyze
    providers_to_analyze,   \* the local list built by analyze
    pos,                    \* index of the provider the for-loop of analyze is at
    call,                   \* arguments of the analyze call in progress
    calls,                  \* analyze calls started so far
    outcome,                \* how the last analyze call ended
    saved,                  \* content of output/analysis_results.json
    merge_log,              \* the provider result maps the merge harness has fed, in order
    probe                   \* inputs and outputs of the function-level specifications

vars == <<config, api_key, results, pc, providers_to_analyze, pos, call, calls,
          outcome, saved, merge_log, probe>>

-----------------------------------------------------------------------------
(* Bounds of the model *)

MaxCalls == 2
MaxFindings == 2

-----------------------------------------------------------------------------
(* Natural numbers of any size, as digit sequences *)

BaseBits == 15
Base == 2 ^ BaseBits

Pow2(k) == 2 ^ k

Pow10(d) == 10 ^ d

RECURSIVE BitLength(_)
BitLength(n) == IF n = 0 THEN 0 ELSE 1 + BitLength(n \div 2)

RECURSIVE NatTrim(_)
NatTrim(a) ==
    IF a = <<>> THEN <<>>
    ELSE IF a[Len(a)] = 0 THEN NatTrim(SubSeq(a, 1, Len(a) - 1))
    ELSE a

RECURSIVE NatOfInt(_)
NatOfInt(n) == IF n = 0 THEN <<>> ELSE <<n % Base>> \o NatOfInt(n \div Base)

RECURSIVE NatAddCarry(_, _, _)
NatAddCarry(a, b, carry) ==
    IF a = <<>> /\ b = <<>> THEN (IF carry = 0 THEN <<>> ELSE <<carry>>)
    ELSE LET x == IF a = <<>> THEN 0 ELSE Head(a)
             y == IF b = <<>> THEN 0 ELSE Head(b)
             s == x + y + carry
         IN  <<s % Base>> \o NatAddCarry(IF a = <<>> THEN <<>> ELSE Tail(a),
                                         IF b = <<>> THEN <<>> ELSE Tail(b),
                                         s \div Base)

NatAdd(a, b) == NatAddCarry(a, b, 0)

RECURSIVE NatTimesCarry(_, _, _)
NatTimesCarry(a, n, carry) ==
    IF a = <<>> THEN NatOfInt(carry)
    ELSE LET p == Head(a) * n + carry
         IN  <<p % Base>> \o NatTimesCarry(Tail(a), n, p \div Base)

\* a * n, for one digit n (0 <= n <= Base)
NatTimes(a, n) == NatTrim(NatTimesCarry(a, n, 0))

RECURSIVE NatMul(_, _)
NatMul(a, b) ==
    IF a = <<>> \/ b = <<>> THEN <<>>
    ELSE LET rest == NatMul(a, Tail(b))
         IN  NatAdd(NatTimes(a, Head(b)), IF rest = <<>> THEN <<>> ELSE <<0>> \o rest)

RECURSIVE NatDivRem(_, _)
\* quotient and remainder of a by n (0 < n <= Base)
NatDivRem(a, n) ==
    IF a = <<>> THEN [q |-> <<>>, r |-> 0]
    ELSE LET high == NatDivRem(Tail(a), n)
             x    == high.r * Base + Head(a)
         IN  [q |-> NatTrim(<<x \div n>> \o high.q), r |-> x % n]

NatShiftLeft(a, k) ==
    IF a = <<>> THEN <<>>
    ELSE NatTimes([i \in 1..(k \div BaseBits) |-> 0] \o a, Pow2(k % BaseBits))

NatShiftRight(a, k) ==
    IF Len(a) <= k \div BaseBits THEN <<>>
    ELSE NatDivRem(SubSeq(a, (k \div BaseBits) + 1, Len(a)), Pow2(k % BaseBits)).q

\* the k lowest bits of a are all 0
NatLowBitsZero(a, k) ==
    /\ \A i \in 1..Len(a) : i <= k \div BaseBits => a[i] = 0
    /\ Len(a) > k \div BaseBits => a[(k \div BaseBits) + 1] % Pow2(k % BaseBits) = 0

\* bit k of a
NatBit(a, k) ==
    IF Len(a) <= k \div BaseBits THEN 0
    ELSE (a[(k \div BaseBits) + 1] \div Pow2(k % BaseBits)) % 2

NatBitLength(a) ==
    IF a = <<>> THEN 0 ELSE (Len(a) - 1) * BaseBits + BitLength(a[Len(a)])

RECURSIVE NatLess(_, _)
NatLess(a, b) ==
    IF Len(a) # Len(b) THEN Len(a) < Len(b)
    ELSE IF a = <<>> THEN FALSE
    ELSE IF a[Len(a)] # b[Len(b)] THEN a[Len(a)] < b[Len(b)]
    ELSE NatLess(SubSeq(a, 1, Len(a) - 1), SubSeq(b, 1, Len(b) - 1))

-----------------------------------------------------------------------------
(* Python floats *)

\* sys.float_info.mant_dig
MantissaBits == 53

\* 0.0, and the int 0 where it meets a float
Zero == [m |-> <<>>, e |-> 0]

\* The float nearest to s * 2^e, ties to even
RoundToFloat(s, e) ==
    LET k == NatBitLength(s) - MantissaBits
    IN  IF s = <<>> THEN Zero
        ELSE IF k <= 0 THEN [m |-> NatShiftLeft(s, 0 - k), e |-> e + k]
        ELSE LET q  == NatShiftRight(s, k)
                 up == /\ NatBit(s, k - 1) = 1
                       /\ (~NatLowBitsZero(s, k - 1) \/ NatBit(q, 0) = 1)
                 m  == IF up THEN NatAdd(q, <<1>>) ELSE q
             IN  IF NatBitLength(m) > MantissaBits
                 THEN [m |-> NatShiftRight(m, 1), e |-> e + k + 1]
                 ELSE [m |-> m, e |-> e + k]

\* float(n) of an int n >= 0
Float(n) == RoundToFloat(NatOfInt(n), 0)

\* x + y
FloatAdd(x, y) ==
    IF x.m = <<>> THEN y
    ELSE IF y.m = <<>> THEN x
    ELSE LET e == IF x.e < y.e THEN x.e ELSE y.e
         IN  RoundToFloat(NatAdd(NatShiftLeft(x.m, x.e - e), NatShiftLeft(y.m, y.e - e)), e)

\* x * y
FloatMul(x, y) == RoundToFloat(NatMul(x.m, y.m), x.e + y.e)

\* Bits of the quotient kept beyond those of the dividend: more than the bits of
\* the divisor, so that the quotient has more than 53 bits before it is rounded
ExtraBits == 17

\* x / n for an int n (0 < n <= Base): the quotient with a sticky last bit, rounded
FloatOver(x, n) ==
    LET d == NatDivRem(NatShiftLeft(x.m, ExtraBits), n)
    IN  RoundToFloat(NatAdd(NatTimes(d.q, 2), IF d.r = 0 THEN <<>> ELSE <<1>>),
                     x.e - ExtraBits - 1)

\* The float a decimal literal n / 10^d denotes, for instance 3.60 as Decimal(360, 2)
Decimal(n, d) == FloatOver(Float(n), Pow10(d))

\* x < y
FloatLess(x, y) ==
    IF y.m = <<>> THEN FALSE
    ELSE IF x.m = <<>> THEN TRUE
    ELSE IF x.e # y.e THEN x.e < y.e
    ELSE NatLess(x.m, y.m)

-----------------------------------------------------------------------------
(* Python dict and list helpers *)

None == "None"

\* bool(v) of a value that is None or a string
Truthy(v) == v # None /\ v # ""

\* dict.get(key, default) on a dict with optional keys
Get(d, k, default) == IF k \in DOMAIN d THEN d[k] ELSE default

\* key in dict, for an insertion-ordered dict
Has(d, k) == \E i \in 1..Len(d) : d[i].key = k

\* dict[key]
Lookup(d, k) == d[CHOOSE i \in 1..Len(d) : d[i].key = k].val

\* dict[key] = v : an existing key keeps its position, a new key goes last
Put(d, k, v) ==
    IF Has(d, k)
    THEN [i \in 1..Len(d) |-> IF d[i].key = k THEN [key |-> k, val |-> v] ELSE d[i]]
    ELSE Append(d, [key |-> k, val |-> v])

Keys(d) == {d[i].key : i \in 1..Len(d)}

Range(s) == {s[i] : i \in 1..Len(s)}

RECURSIVE SumSavings(_)
\* total_savings = 0, then total_savings += estimated_savings for each finding
\* in the order they were appended
SumSavings(findings) ==
    IF findings = <<>> THEN Zero
    ELSE FloatAdd(SumSavings(SubSeq(findings, 1, Len(findings) - 1)),
                  findings[Len(findings)].estimated_monthly_savings)

-----------------------------------------------------------------------------
(* Aggregation engine: the merge loop of _analyze_aws/_analyze_azure/_analyze_gcp *)

EmptyBucket == [count |-> 0, savings |-> Zero, items |-> <<>>]

\* if category not in self.results['categories']: create the bucket
EnsureBucket(categories, category) ==
    IF Has(categories, category) THEN categories
    ELSE Put(categories, category, EmptyBucket)

\* Variants of the merge steps with a slip in them
AddCountOverwrite(bucket, data) ==
    [bucket EXCEPT !.count = Get(data, "count", 0)]

AddCountDefaultOne(bucket, data) ==
    [bucket EXCEPT !.count = @ + Get(data, "count", 1)]

ReplaceItems(bucket, data) ==
    [bucket EXCEPT !.items = Get(data, "items", <<>>)]

PrependItems(bucket, data) ==
    [bucket EXCEPT !.items = Get(data, "items", <<>>) \o @]

\* ...['count'] += data.get('count', 0)
AddCount(bucket, data) ==
    [bucket EXCEPT !.count = @ + Get(data, "count", 0)]

\* ...['savings'] += data.get('savings', 0)
AddSavings(bucket, data) ==
    [bucket EXCEPT !.savings = FloatAdd(@, Get(data, "savings", Zero))]

\* ...['items'].extend(data.get('items', []))
ExtendItems(bucket, data) ==
    [bucket EXCEPT !.items = @ \o Get(data, "items", <<>>)]

\* self.results['total_savings'] += data.get('savings', 0)
AddTotal(total, data) == FloatAdd(total, Get(data, "savings", Zero))

\* one iteration of the merge loop
MergeCategory(res, category, data) ==
    LET cats == EnsureBucket(res.categories, category)
        b    == ExtendItems(AddSavings(AddCount(Lookup(cats, category), data), data), data)
    IN  [res EXCEPT !.categories = Put(cats, category, b),
                    !.total_savings = AddTotal(@, data)]

RECURSIVE MergeResults(_, _)
\* for category, data in provider_results.items(): ...
MergeResults(res, provider_results) ==
    IF provider_results = <<>> THEN res
    ELSE MergeResults(MergeCategory(res, Head(provider_results).key,
                                    Head(provider_results).val),
                      Tail(provider_results))

-----------------------------------------------------------------------------
(* Provider probes: AWSAnalyzer, AzureAnalyzer and GCPAnalyzer.  A probe reads  *)
(* what the provider's API lists (the resources of the account, with the        *)
(* fields the probe looks at) and returns the findings for the resources it     *)
(* flags.                                                                       *)

\* config.get('regions', ['us-east-1'])
DefaultRegions == <<"us-east-1">>

\* return {'count': len(findings), 'savings': total_savings, 'items': findings}
ProbeResult(findings) ==
    [count |-> Len(findings), savings |-> SumSavings(findings), items |-> findings]

\* The findings appended by a loop over listed resources: one for each resource
\* the test flags, in the order listed
Flagged(resources, Test(_), FindingOf(_)) ==
    LET flagged == SelectSeq(resources, Test)
    IN  [i \in 1..Len(flagged) |-> FindingOf(flagged[i])]

RECURSIVE Listed(_, _)
\* The resources the loop "for region in self.regions" comes by, in its order:
\* for each region in turn, those the API lists there
Listed(regions, resources) ==
    IF regions = <<>> THEN <<>>
    ELSE SelectSeq(resources, LAMBDA r : r.Region = Head(regions))
         \o Listed(Tail(regions), resources)

\* for region in self.regions: the loop over the resources listed in the region
ForRegions(regions, resources, Test(_), FindingOf(_)) ==
    Flagged(Listed(regions, resources), Test, FindingOf)

RECURSIVE FloatSum(_)
\* sum(values), from the int 0
FloatSum(values) ==
    IF values = <<>> THEN Zero
    ELSE FloatAdd(FloatSum(SubSeq(values, 1, Len(values) - 1)), values[Len(values)])

\* _get_average_cpu / _get_average_db_cpu on the daily averages CloudWatch returns
GetAverageCpu(datapoints) ==
    IF datapoints # <<>> THEN FloatOver(FloatSum(datapoints), Len(datapoints))
    ELSE Float(50)

\* AWSAnalyzer._estimate_instance_savings
EstimateInstanceSavings(instance_type, reduction) ==
    LET base_cost ==
          CASE instance_type = "t2.micro" -> Decimal(85, 1)
            [] instance_type = "t2.small" -> Float(17)
            [] instance_type = "t2.medium" -> Float(34)
            [] instance_type = "t3.micro" -> Decimal(75, 1)
            [] instance_type = "t3.small" -> Float(15)
            [] instance_type = "t3.medium" -> Float(30)
            [] instance_type = "m5.large" -> Float(70)
            [] instance_type = "m5.xlarge" -> Float(140)
            [] instance_type = "m5.2xlarge" -> Float(280)
            [] OTHER -> Float(100)
    IN  FloatMul(base_cost, reduction)

\* _estimate_rds_savings
EstimateRdsSavings(db_class, reduction) ==
    LET base_cost ==
          CASE db_class = "db.t2.micro" -> Float(15)
            [] db_class = "db.t2.small" -> Float(30)
            [] db_class = "db.t3.micro" -> Float(14)
            [] db_class = "db.t3.small" -> Float(27)
            [] db_class = "db.m5.large" -> Float(135)
            [] db_class = "db.m5.xlarge" -> Float(270)
            [] OTHER -> Float(150)
    IN  FloatMul(base_cost, reduction)

\* _estimate_ebs_savings
EstimateEbsSavings(size_gb, volume_type) ==
    LET price_per_gb ==
          CASE volume_type = "gp2" -> Decimal(10, 2)
            [] volume_type = "gp3" -> Decimal(8, 2)
            [] volume_type = "io1" -> Decimal(125, 3)
            [] volume_type = "io2" -> Decimal(125, 3)
            [] volume_type = "sc1" -> Decimal(25, 3)
            [] volume_type = "st1" -> Decimal(45, 3)
            [] OTHER -> Decimal(10, 2)
    IN  FloatMul(Float(size_gb), price_per_gb)

\* _analyze_ec2_instances: running instances whose average CPU is below 10
AnalyzeEc2Instances(regions, instances) ==
    ProbeResult(ForRegions(regions, instances,
        LAMBDA instance :
            /\ instance.State = "running"
            /\ FloatLess(GetAverageCpu(instance.Datapoints), Float(10)),
        LAMBDA instance :
            [resource_id |-> instance.InstanceId,
             resource_type |-> "EC2 Instance",
             region |-> instance.Region,
             issue |-> "Low CPU utilization",
             current_config |-> instance.InstanceType,
             recommendation |-> "Consider downsizing or stopping",
             cpu_utilization |-> GetAverageCpu(instance.Datapoints),
             estimated_monthly_savings |->
                 EstimateInstanceSavings(instance.InstanceType, Decimal(5, 1)),
             confidence |-> Decimal(9, 1)]))

\* _analyze_ebs_volumes: the unattached volumes
AnalyzeEbsVolumes(regions, volumes) ==
    ProbeResult(ForRegions(regions, volumes,
        LAMBDA volume : volume.State = "available",
        LAMBDA volume :
            [resource_id |-> volume.VolumeId,
             resource_type |-> "EBS Volume",
             region |-> volume.Region,
             issue |-> "Unattached volume",
             current_config |-> ToString(Get(volume, "Size", 0)) \o "GB "
                                \o Get(volume, "VolumeType", "gp2"),
             recommendation |-> "Delete if not needed or create snapshot",
             estimated_monthly_savings |->
                 EstimateEbsSavings(Get(volume, "Size", 0),
                                    Get(volume, "VolumeType", "gp2")),
             confidence |-> Decimal(99, 2)]))

\* _analyze_elastic_ips: the addresses attached to no instance
AnalyzeElasticIps(regions, addresses) ==
    ProbeResult(ForRegions(regions, addresses,
        LAMBDA address : ~Truthy(Get(address, "InstanceId", None)),
        LAMBDA address :
            [resource_id |-> address.AllocationId,
             resource_type |-> "Elastic IP",
             region |-> address.Region,
             issue |-> "Unattached Elastic IP",
             recommendation |-> "Release if not needed",
             estimated_monthly_savings |-> Decimal(360, 2),
             confidence |-> Float(1)]))

\* _analyze_rds_instances: the databases whose average CPU is below 20
AnalyzeRdsInstances(regions, db_instances) ==
    ProbeResult(ForRegions(regions, db_instances,
        LAMBDA db : FloatLess(GetAverageCpu(db.Datapoints), Float(20)),
        LAMBDA db :
            [resource_id |-> db.DBInstanceIdentifier,
             resource_type |-> "RDS Instance",
             region |-> db.Region,
             issue |-> "Low CPU utilization",
             current_config |-> db.DBInstanceClass,
             recommendation |-> "Consider downsizing",
             cpu_utilization |-> GetAverageCpu(db.Datapoints),
             estimated_monthly_savings |->
                 EstimateRdsSavings(db.DBInstanceClass, Decimal(3, 1)),
             confidence |-> Decimal(85, 2)]))

\* _analyze_s3_buckets: the buckets without a lifecycle configuration
AnalyzeS3Buckets(buckets) ==
    ProbeResult(Flagged(buckets,
        LAMBDA bucket : ~bucket.HasLifecycle,
        LAMBDA bucket :
            [resource_id |-> bucket.Name,
             resource_type |-> "S3 Bucket",
             issue |-> "No lifecycle policy",
             recommendation |->
                 "Implement lifecycle policy to move old data to cheaper storage",
             estimated_monthly_savings |-> Float(50),
             confidence |-> Decimal(7, 1)]))

\* AWSAnalyzer.analyze: the five categories, in this order
AwsAnalyze(regions, cloud) ==
    << [key |-> "EC2 Instances", val |-> AnalyzeEc2Instances(regions, cloud.Instances)],
       [key |-> "EBS Volumes", val |-> AnalyzeEbsVolumes(regions, cloud.Volumes)],
       [key |-> "Elastic IPs", val |-> AnalyzeElasticIps(regions, cloud.Addresses)],
       [key |-> "RDS Databases", val |-> AnalyzeRdsInstances(regions, cloud.DBInstances)],
       [key |-> "S3 Storage", val |-> AnalyzeS3Buckets(cloud.Buckets)] >>

\* AzureAnalyzer._estimate_vm_savings
EstimateVmSavings(vm_size) ==
    CASE vm_size = "Standard_B1s" -> Float(8)
      [] vm_size = "Standard_B2s" -> Float(30)
      [] vm_size = "Standard_D2s_v3" -> Float(70)
      [] vm_size = "Standard_D4s_v3" -> Float(140)
      [] vm_size = "Standard_D8s_v3" -> Float(280)
      [] OTHER -> Float(100)

\* AzureAnalyzer._estimate_disk_savings
EstimateManagedDiskSavings(size_gb) == FloatMul(Float(size_gb), Decimal(5, 2))

\* _analyze_vms: the VMs that are stopped and not deallocated
AnalyzeVms(vms) ==
    ProbeResult(Flagged(vms,
        LAMBDA vm : "PowerState/stopped" \in Range(vm.statuses),
        LAMBDA vm :
            [resource_id |-> vm.name,
             resource_type |-> "Virtual Machine",
             issue |-> "VM is stopped but not deallocated",
             current_config |-> vm.vm_size,
             recommendation |-> "Deallocate VM to stop incurring charges",
             estimated_monthly_savings |-> EstimateVmSavings(vm.vm_size),
             confidence |-> Float(1)]))

\* AzureAnalyzer._analyze_disks: the disks no VM manages
AnalyzeManagedDisks(disks) ==
    ProbeResult(Flagged(disks,
        LAMBDA disk : ~Truthy(disk.managed_by),
        LAMBDA disk :
            [resource_id |-> disk.name,
             resource_type |-> "Managed Disk",
             issue |-> "Unattached disk",
             current_config |-> ToString(disk.disk_size_gb) \o "GB",
             recommendation |-> "Delete if not needed or create snapshot",
             estimated_monthly_savings |-> EstimateManagedDiskSavings(disk.disk_size_gb),
             confidence |-> Decimal(95, 2)]))

\* AzureAnalyzer._analyze_storage: the accounts on the Premium tier
AnalyzeStorageAccounts(accounts) ==
    ProbeResult(Flagged(accounts,
        LAMBDA account : account.access_tier = "Premium",
        LAMBDA account :
            [resource_id |-> account.name,
             resource_type |-> "Storage Account",
             issue |-> "Using Premium tier",
             recommendation |-> "Consider downgrading to Hot or Cool tier",
             estimated_monthly_savings |-> Float(30),
             confidence |-> Decimal(6, 1)]))

\* AzureAnalyzer.analyze
AzureAnalyze(cloud) ==
    << [key |-> "Virtual Machines", val |-> AnalyzeVms(cloud.VirtualMachines)],
       [key |-> "Managed Disks", val |-> AnalyzeManagedDisks(cloud.Disks)],
       [key |-> "Storage Accounts", val |-> AnalyzeStorageAccounts(cloud.StorageAccounts)] >>

\* GCPAnalyzer._estimate_instance_savings
EstimateComputeInstanceSavings(machine_type) ==
    CASE machine_type = "e2-micro" -> Float(6)
      [] machine_type = "e2-small" -> Float(12)
      [] machine_type = "e2-medium" -> Float(24)
      [] machine_type = "n1-standard-1" -> Float(25)
      [] machine_type = "n1-standard-2" -> Float(50)
      [] machine_type = "n1-standard-4" -> Float(100)
      [] OTHER -> Float(80)

\* GCPAnalyzer._estimate_disk_savings
EstimatePersistentDiskSavings(size_gb) == FloatMul(Float(size_gb), Decimal(4, 2))

\* _analyze_compute_instances: the instances that are TERMINATED; machine_type is
\* the last segment of the instance's machine type URL
AnalyzeComputeInstances(instances) ==
    ProbeResult(Flagged(instances,
        LAMBDA instance : instance.status = "TERMINATED",
        LAMBDA instance :
            [resource_id |-> instance.name,
             resource_type |-> "Compute Instance",
             issue |-> "Stopped instance still incurring disk charges",
             current_config |-> instance.machine_type,
             recommendation |-> "Delete if not needed",
             estimated_monthly_savings |->
                 EstimateComputeInstanceSavings(instance.machine_type),
             confidence |-> Decimal(9, 1)]))

\* GCPAnalyzer._analyze_disks: the disks without users
AnalyzePersistentDisks(disks) ==
    ProbeResult(Flagged(disks,
        LAMBDA disk : disk.users = <<>>,
        LAMBDA disk :
            [resource_id |-> disk.name,
             resource_type |-> "Persistent Disk",
             issue |-> "Unattached disk",
             current_config |-> ToString(disk.size_gb) \o "GB",
             recommendation |-> "Delete if not needed or create snapshot",
             estimated_monthly_savings |-> EstimatePersistentDiskSavings(disk.size_gb),
             confidence |-> Decimal(95, 2)]))

\* GCPAnalyzer._analyze_storage: the buckets without lifecycle rules
AnalyzeCloudStorage(buckets) ==
    ProbeResult(Flagged(buckets,
        LAMBDA bucket : bucket.lifecycle_rules = <<>>,
        LAMBDA bucket :
            [resource_id |-> bucket.name,
             resource_type |-> "Cloud Storage Bucket",
             issue |-> "No lifecycle management",
             recommendation |->
                 "Configure lifecycle rules to move old data to cheaper storage classes",
             estimated_monthly_savings |-> Float(40),
             confidence |-> Decimal(65, 2)]))

\* GCPAnalyzer.analyze
GcpAnalyze(cloud) ==
    << [key |-> "Compute Instances", val |-> AnalyzeComputeInstances(cloud.Instances)],
       [key |-> "Persistent Disks", val |-> AnalyzePersistentDisks(cloud.Disks)],
       [key |-> "Cloud Storage", val |-> AnalyzeCloudStorage(cloud.Buckets)] >>

(* The accounts the probes of the model read.  What a provider lists may differ *)
(* from one scan to the next.                                                   *)

\* n volumes of one region, all unattached: 8 GB and 100 GB gp2 volumes in turn
Volumes(n) ==
    [i \in 1..n |->
        [VolumeId |-> "vol-" \o ToString(i), State |-> "available",
         Size |-> IF i % 2 = 1 THEN 8 ELSE 100, VolumeType |-> "gp2",
         Region |-> "us-east-1"]]

\* n addresses of one region, attached to no instance
Addresses(n) ==
    [i \in 1..n |-> [AllocationId |-> "eipalloc-" \o ToString(i), Region |-> "us-east-1"]]

\* findings, after the first n of those volumes were flagged
Findings(n) == AnalyzeEbsVolumes(DefaultRegions, Volumes(n)).items

\* the i-th of those findings
Finding(i) == Findings(i)[i]

AwsNothing ==
    [Instances |-> <<>>, Volumes |-> <<>>, Addresses |-> <<>>, DBInstances |-> <<>>,
     Buckets |-> <<>>]

\* An idle t2.micro beside a busy instance and a stopped one, one unattached
\* volume beside one in use, an idle database, a bucket with a lifecycle
\* configuration, and a volume of a region that is not scanned
AwsSmallAccount ==
    [Instances |->
        << [InstanceId |-> "i-1", InstanceType |-> "t2.micro", State |-> "running",
            Region |-> "us-east-1", Datapoints |-> <<Float(2), Float(3)>>],
           [InstanceId |-> "i-2", InstanceType |-> "m5.large", State |-> "running",
            Region |-> "us-east-1", Datapoints |-> <<>>],
           [InstanceId |-> "i-3", InstanceType |-> "m5.large", State |-> "stopped",
            Region |-> "us-east-1", Datapoints |-> <<Float(0)>>] >>,
     Volumes |->
        Volumes(1)
        \o << [VolumeId |-> "vol-8", State |-> "in-use", Size |-> 500,
               VolumeType |-> "io1", Region |-> "us-east-1"],
              [VolumeId |-> "vol-9", State |-> "available", Size |-> 500,
               VolumeType |-> "io1", Region |-> "eu-west-1"] >>,
     Addresses |-> <<>>,
     DBInstances |->
        << [DBInstanceIdentifier |-> "db-1", DBInstanceClass |-> "db.t3.micro",
            Region |-> "us-east-1", Datapoints |-> <<Float(5)>>] >>,
     Buckets |-> << [Name |-> "b-1", HasLifecycle |-> TRUE] >>]

\* Two unattached volumes, four unattached addresses beside an attached one, an
\* idle database beside a busy one, and a bucket without lifecycle configuration
AwsLargeAccount ==
    [Instances |-> <<>>,
     Volumes |-> Volumes(2),
     Addresses |->
        Addresses(4)
        \o << [AllocationId |-> "eipalloc-9", InstanceId |-> "i-2",
               Region |-> "us-east-1"] >>,
     DBInstances |->
        << [DBInstanceIdentifier |-> "db-1", DBInstanceClass |-> "db.t3.micro",
            Region |-> "us-east-1", Datapoints |-> <<Float(5)>>],
           [DBInstanceIdentifier |-> "db-2", DBInstanceClass |-> "db.m5.large",
            Region |-> "us-east-1", Datapoints |-> <<Float(60), Float(70)>>] >>,
     Buckets |-> << [Name |-> "b-2", HasLifecycle |-> FALSE] >>]

AwsClouds == {AwsNothing, AwsSmallAccount, AwsLargeAccount}

AzureNothing == [VirtualMachines |-> <<>>, Disks |-> <<>>, StorageAccounts |-> <<>>]

\* A stopped VM beside a running one, an unattached disk beside an attached one,
\* a Premium storage account beside a Hot one
AzureAccount ==
    [VirtualMachines |->
        << [name |-> "vm-1", vm_size |-> "Standard_B2s",
            statuses |-> <<"ProvisioningState/succeeded", "PowerState/stopped">>],
           [name |-> "vm-2", vm_size |-> "Standard_D2s_v3",
            statuses |-> <<"ProvisioningState/succeeded", "PowerState/running">>] >>,
     Disks |->
        << [name |-> "disk-1", disk_size_gb |-> 10, managed_by |-> None],
           [name |-> "disk-2", disk_size_gb |-> 128, managed_by |-> "vm-2"] >>,
     StorageAccounts |->
        << [name |-> "acct-1", access_tier |-> "Premium"],
           [name |-> "acct-2", access_tier |-> "Hot"] >>]

AzureClouds == {AzureNothing, AzureAccount}

GcpNothing == [Instances |-> <<>>, Disks |-> <<>>, Buckets |-> <<>>]

\* A terminated instance beside a running one, a disk without users beside one
\* in use, a bucket without lifecycle rules beside one that has a rule
GcpProject ==
    [Instances |->
        << [name |-> "vm-a", machine_type |-> "e2-micro", status |-> "TERMINATED"],
           [name |-> "vm-b", machine_type |-> "n1-standard-1", status |-> "RUNNING"] >>,
     Disks |->
        << [name |-> "pd-a", size_gb |-> 10, users |-> <<>>],
           [name |-> "pd-b", size_gb |-> 100, users |-> <<"vm-b">>] >>,
     Buckets |->
        << [name |-> "gcs-a", lifecycle_rules |-> <<>>],
           [name |-> "gcs-b", lifecycle_rules |-> <<"age">>] >>]

GcpClouds == {GcpNothing, GcpProject}

-----------------------------------------------------------------------------
(* Recommendation engine: InsightEngine *)

HighSavings == 10000
HighCount == 50
MediumSavings == 1000
MediumCount == 10

\* The two amounts as the floats a float savings is compared with
HighSavingsAmount == Float(HighSavings)
MediumSavingsAmount == Float(MediumSavings)

\* _calculate_priority with inclusive comparisons
CalculatePriorityInclusive(savings, count) ==
    IF ~FloatLess(savings, HighSavingsAmount) \/ count >= HighCount THEN "High"
    ELSE IF ~FloatLess(savings, MediumSavingsAmount) \/ count >= MediumCount THEN "Medium"
    ELSE "Low"

\* _calculate_priority with "and" where the code has "or"
CalculatePriorityBoth(savings, count) ==
    IF FloatLess(HighSavingsAmount, savings) /\ count > HighCount THEN "High"
    ELSE IF FloatLess(MediumSavingsAmount, savings) /\ count > MediumCount THEN "Medium"
    ELSE "Low"

\* _calculate_priority with the Medium test on count turned around
CalculatePriorityFewIsMedium(savings, count) ==
    IF FloatLess(HighSavingsAmount, savings) \/ count > HighCount THEN "High"
    ELSE IF FloatLess(MediumSavingsAmount, savings) \/ count < MediumCount THEN "Medium"
    ELSE "Low"

\* _calculate_priority: savings > 10000 and savings > 1000 compare a float with
\* an int, by value
CalculatePriority(savings, count) ==
    IF FloatLess(HighSavingsAmount, savings) \/ count > HighCount THEN "High"
    ELSE IF FloatLess(MediumSavingsAmount, savings) \/ count > MediumCount THEN "Medium"
    ELSE "Low"

\* The names the remedy table of _get_category_recommendation has
KnownCategories ==
    {"EC2 Instances", "EBS Volumes", "Elastic IPs", "RDS Databases", "S3 Storage",
     "Virtual Machines", "Managed Disks", "Storage Accounts", "Compute Instances",
     "Persistent Disks", "Cloud Storage"}

\* _get_category_recommendation with recommendations.get(category): no default
GetCategoryRecommendationNoDefault(category) ==
    CASE category = "EC2 Instances" -> "Review and rightsize or terminate idle instances"
      [] category = "EBS Volumes" -> "Delete unattached volumes or create snapshots"
      [] category = "Elastic IPs" -> "Release unattached Elastic IPs"
      [] category = "RDS Databases" -> "Downsize or use reserved instances for better pricing"
      [] category = "S3 Storage" -> "Implement lifecycle policies to optimize storage costs"
      [] category = "Virtual Machines" -> "Deallocate stopped VMs or resize active ones"
      [] category = "Managed Disks" -> "Clean up unattached disks"
      [] category = "Storage Accounts" -> "Optimize storage tier based on access patterns"
      [] category = "Compute Instances" -> "Review instance utilization and rightsizing"
      [] category = "Persistent Disks" -> "Remove unattached disks"
      [] category = "Cloud Storage" -> "Configure lifecycle management for automatic optimization"
      [] OTHER -> None

\* _get_category_recommendation: recommendations.get(category, <generic>)
GetCategoryRecommendation(category) ==
    CASE category = "EC2 Instances" -> "Review and rightsize or terminate idle instances"
      [] category = "EBS Volumes" -> "Delete unattached volumes or create snapshots"
      [] category = "Elastic IPs" -> "Release unattached Elastic IPs"
      [] category = "RDS Databases" -> "Downsize or use reserved instances for better pricing"
      [] category = "S3 Storage" -> "Implement lifecycle policies to optimize storage costs"
      [] category = "Virtual Machines" -> "Deallocate stopped VMs or resize active ones"
      [] category = "Managed Disks" -> "Clean up unattached disks"
      [] category = "Storage Accounts" -> "Optimize storage tier based on access patterns"
      [] category = "Compute Instances" -> "Review instance utilization and rightsizing"
      [] category = "Persistent Disks" -> "Remove unattached disks"
      [] category = "Cloud Storage" -> "Configure lifecycle management for automatic optimization"
      [] OTHER -> "Review and optimize resources"

\* _assess_risk with the two lists exchanged
AssessRiskListsSwapped(category) ==
    IF category \in {"EBS Volumes", "Managed Disks", "Persistent Disks"} THEN "Medium"
    ELSE IF category \in {"EC2 Instances", "RDS Databases", "Virtual Machines",
                          "Compute Instances"} THEN "Low"
    ELSE "Very Low"

\* _assess_risk
AssessRisk(category) ==
    IF category \in {"EC2 Instances", "RDS Databases", "Virtual Machines",
                     "Compute Instances"} THEN "Medium"
    ELSE IF category \in {"EBS Volumes", "Managed Disks", "Persistent Disks"} THEN "Low"
    ELSE "Very Low"

\* _assess_effort with 'Elastic IPs' missing from low_effort
AssessEffortShortList(category) ==
    IF category \in {"EBS Volumes", "Managed Disks", "Persistent Disks"}
    THEN "Low"
    ELSE "Medium"

\* _assess_effort
AssessEffort(category) ==
    IF category \in {"Elastic IPs", "EBS Volumes", "Managed Disks", "Persistent Disks"}
    THEN "Low"
    ELSE "Medium"

\* What a division by zero leaves in place of a quotient
ZeroDivisionError == [raised |-> "ZeroDivisionError"]

\* savings / count, the true division of an amount by a count
Divide(savings, count) ==
    IF count = 0 THEN ZeroDivisionError ELSE FloatOver(savings, count)

\* the dict appended, with finding_count taken from the length of items
MakeRecommendationFromItems(category, data) ==
    [category |-> category,
     priority |-> CalculatePriority(Get(data, "savings", Zero), Get(data, "count", 0)),
     finding_count |-> Len(Get(data, "items", <<>>)),
     total_savings |-> Get(data, "savings", Zero),
     average_savings_per_item |-> Divide(Get(data, "savings", Zero), Get(data, "count", 1)),
     recommendation |-> GetCategoryRecommendation(category),
     risk_level |-> AssessRisk(category),
     effort |-> AssessEffort(category)]

\* the dict appended for one category with count > 0
MakeRecommendation(category, data) ==
    [category |-> category,
     priority |-> CalculatePriority(Get(data, "savings", Zero), Get(data, "count", 0)),
     finding_count |-> Get(data, "count", 0),
     total_savings |-> Get(data, "savings", Zero),
     average_savings_per_item |-> Divide(Get(data, "savings", Zero), Get(data, "count", 1)),
     recommendation |-> GetCategoryRecommendation(category),
     risk_level |-> AssessRisk(category),
     effort |-> AssessEffort(category)]

\* the filter of the loop testing savings instead of count
HasSavings(data) == FloatLess(Zero, Get(data, "savings", Zero))

\* the filter of the loop letting zero-count categories through
HasCount(data) == Get(data, "count", 0) >= 0

\* if data.get('count', 0) > 0
HasFindings(data) == Get(data, "count", 0) > 0

RECURSIVE CollectRecommendations(_)
\* the for-loop of _generate_basic_recommendations
CollectRecommendations(categories) ==
    IF categories = <<>> THEN <<>>
    ELSE LET e == Head(categories)
         IN  (IF HasFindings(e.val) THEN <<MakeRecommendation(e.key, e.val)>> ELSE <<>>)
             \o CollectRecommendations(Tail(categories))

\* r goes before the entries of equal total_savings: ties come out reversed
InsertBeforeEqual(sorted, r) ==
    LET n == Cardinality({i \in 1..Len(sorted) :
                              FloatLess(r.total_savings, sorted[i].total_savings)})
    IN  SubSeq(sorted, 1, n) \o <<r>> \o SubSeq(sorted, n + 1, Len(sorted))

\* r goes after every entry whose total_savings is not smaller (a stable insertion)
InsertDescending(sorted, r) ==
    LET n == Cardinality({i \in 1..Len(sorted) :
                              ~FloatLess(sorted[i].total_savings, r.total_savings)})
    IN  SubSeq(sorted, 1, n) \o <<r>> \o SubSeq(sorted, n + 1, Len(sorted))

\* the sort left out: the recommendations stay in the order of the loop
SortSkipped(recs) == recs

RECURSIVE SortBySavings(_)
\* recommendations.sort(key=lambda x: x['total_savings'], reverse=True): list.sort
\* is stable, and with reverse=True equal keys keep their original order
SortBySavings(recs) ==
    IF recs = <<>> THEN <<>>
    ELSE InsertDescending(SortBySavings(SubSeq(recs, 1, Len(recs) - 1)), recs[Len(recs)])

\* _generate_basic_recommendations
GenerateBasicRecommendations(categories) ==
    SortBySavings(CollectRecommendations(categories))

\* an enhanced path of its own, which returns the recommendations of the loop
\* without the final sort
GenerateAiRecommendationsUnsorted(categories) == CollectRecommendations(categories)

\* _generate_ai_recommendations
GenerateAiRecommendations(categories) == GenerateBasicRecommendations(categories)

\* The try block of enhance_recommendations: what _generate_ai_recommendations
\* returns, or the exception raised while it runs.  The stub raises nothing on
\* its own; raises stands for an error that reaches it at call time.
TryGenerateAiRecommendations(categories, raises) ==
    IF raises THEN [raised |-> TRUE]
    ELSE [raised |-> FALSE, value |-> GenerateAiRecommendations(categories)]

\* __init__ without the check of OPENAI_API_KEY
EngineEnabledWithoutKey(ai_config, key_present) == Get(ai_config, "enabled", FALSE)

\* InsightEngine.__init__: self.enabled after construction
EngineEnabled(ai_config, key_present) ==
    IF Get(ai_config, "enabled", FALSE) /\ ~key_present THEN FALSE
    ELSE Get(ai_config, "enabled", FALSE)

\* enhance_recommendations with "except: return []"
EnhanceRecommendationsNoFallback(enabled, categories, raises) ==
    IF ~enabled THEN GenerateBasicRecommendations(categories)
    ELSE LET attempt == TryGenerateAiRecommendations(categories, raises)
         IN  IF attempt.raised THEN <<>> ELSE attempt.value

\* enhance_recommendations: the basic path when not enabled, else the enhanced
\* path, and the basic path again when that raised
EnhanceRecommendations(enabled, categories, raises) ==
    IF ~enabled THEN GenerateBasicRecommendations(categories)
    ELSE LET attempt == TryGenerateAiRecommendations(categories, raises)
         IN  IF attempt.raised THEN GenerateBasicRecommendations(categories)
             ELSE attempt.value

-----------------------------------------------------------------------------
(* CloudAnalyzer *)

EmptyDict == [k \in {} |-> None]

\* d[k] = v on a dict with optional keys
With(d, k, v) == [x \in DOMAIN d \cup {k} |-> IF x = k THEN v ELSE d[x]]

ConfigAllWithIds ==
    [aws |-> [enabled |-> TRUE],
     azure |-> [enabled |-> TRUE, subscription_id |-> "sub-1"],
     gcp |-> [enabled |-> TRUE, project_id |-> "proj-1"],
     ai |-> [enabled |-> TRUE]]

ConfigAllNoIds ==
    [aws |-> [enabled |-> TRUE], azure |-> [enabled |-> TRUE],
     gcp |-> [enabled |-> TRUE], ai |-> [enabled |-> FALSE]]

\* gcp alone, with a project_id that is the empty string
ConfigGcpOnly ==
    [aws |-> [enabled |-> FALSE], azure |-> [enabled |-> FALSE],
     gcp |-> [enabled |-> TRUE, project_id |-> ""], ai |-> [enabled |-> TRUE]]

\* aws with regions: null in the configuration file
ConfigAwsNoRegions ==
    [aws |-> [enabled |-> TRUE, regions |-> None], gcp |-> [enabled |-> TRUE]]

\* The analyzers of the model: a configuration, and whether OPENAI_API_KEY is set.
\* The empty configuration leaves every default to apply.
Setups ==
    { [config |-> EmptyDict, api_key |-> FALSE],
      [config |-> ConfigAllWithIds, api_key |-> TRUE],
      [config |-> ConfigAllNoIds, api_key |-> TRUE],
      [config |-> ConfigGcpOnly, api_key |-> FALSE],
      [config |-> ConfigAwsNoRegions, api_key |-> FALSE] }

\* The analyze calls of the model: without ids, with ids, with empty strings for
\* ids, and for one provider
Calls ==
    { [provider |-> "all", azure_subscription_id |-> None, gcp_project_id |-> None],
      [provider |-> "all", azure_subscription_id |-> "sub-1", gcp_project_id |-> "proj-1"],
      [provider |-> "all", azure_subscription_id |-> "", gcp_project_id |-> ""],
      [provider |-> "gcp", azure_subscription_id |-> None, gcp_project_id |-> "proj-1"] }

NoCall == [provider |-> None, azure_subscription_id |-> None, gcp_project_id |-> None]

\* __init__ without the 'recommendations' key
NewResultsWithoutRecommendations ==
    [timestamp |-> "t0", categories |-> <<>>, total_savings |-> Zero]

\* CloudAnalyzer.__init__: self.results
NewResults ==
    [timestamp |-> "t0", categories |-> <<>>, recommendations |-> <<>>,
     total_savings |-> Zero]

Init ==
    /\ \E s \in Setups : config = s.config /\ api_key = s.api_key
    /\ results = NewResults
    /\ pc = "idle"
    /\ providers_to_analyze = <<>>
    /\ pos = 0
    /\ call = NoCall
    /\ calls = 0
    /\ outcome = None
    /\ saved = <<>>
    /\ merge_log = <<>>
    /\ probe = <<>>

\* providers_to_analyze built with the three tests in the opposite order
ProvidersToAnalyzeGcpFirst(cfg, provider) ==
    IF provider = "all"
    THEN (IF Get(Get(cfg, "gcp", EmptyDict), "enabled", FALSE) THEN <<"gcp">> ELSE <<>>)
         \o (IF Get(Get(cfg, "azure", EmptyDict), "enabled", FALSE) THEN <<"azure">> ELSE <<>>)
         \o (IF Get(Get(cfg, "aws", EmptyDict), "enabled", TRUE) THEN <<"aws">> ELSE <<>>)
    ELSE <<provider>>

\* providers_to_analyze as analyze builds it
ProvidersToAnalyze(cfg, provider) ==
    IF provider = "all"
    THEN (IF Get(Get(cfg, "aws", EmptyDict), "enabled", TRUE) THEN <<"aws">> ELSE <<>>)
         \o (IF Get(Get(cfg, "azure", EmptyDict), "enabled", FALSE) THEN <<"azure">> ELSE <<>>)
         \o (IF Get(Get(cfg, "gcp", EmptyDict), "enabled", FALSE) THEN <<"gcp">> ELSE <<>>)
    ELSE <<provider>>

\* analyze is entered: the list of providers is built
Analyze(provider, azure_subscription_id, gcp_project_id) ==
    /\ pc = "idle"
    /\ calls < MaxCalls
    /\ call' = [provider |-> provider, azure_subscription_id |-> azure_subscription_id,
                gcp_project_id |-> gcp_project_id]
    /\ providers_to_analyze' = ProvidersToAnalyze(config, provider)
    /\ pos' = 1
    /\ pc' = "scan"
    /\ calls' = calls + 1
    /\ outcome' = "running"
    /\ UNCHANGED <<config, api_key, results, saved, merge_log, probe>>

AtProvider(prov) ==
    /\ pc = "scan"
    /\ pos <= Len(providers_to_analyze)
    /\ providers_to_analyze[pos] = prov

\* analyze is left, by return or by an exception: its locals are gone
Exit(how) ==
    /\ pc' = "idle"
    /\ outcome' = how
    /\ providers_to_analyze' = <<>>
    /\ pos' = 0
    /\ call' = NoCall

\* The merge loop run on one provider's results
Merge(provider_results) ==
    results' = MergeResults(results, provider_results)

\* self.config.get('aws', {}), the config of AWSAnalyzer
AwsConfig == Get(config, "aws", EmptyDict)

\* "for region in self.regions" can run: regions, when the section has it, is
\* None in the configurations of the model
RegionsIterable(aws_config) ==
    "regions" \in DOMAIN aws_config => aws_config.regions # None

\* _analyze_aws, AWSAnalyzer constructed and its probes run
AnalyzeAws ==
    /\ AtProvider("aws")
    /\ RegionsIterable(AwsConfig)
    /\ \E cloud \in AwsClouds :
          Merge(AwsAnalyze(Get(AwsConfig, "regions", DefaultRegions), cloud))
    /\ pos' = pos + 1
    /\ UNCHANGED <<config, api_key, pc, providers_to_analyze, call, calls, outcome,
                   saved, merge_log, probe>>

\* _analyze_aws, boto3.Session(profile_name=...) raises and so does the
\* boto3.Session() of the except branch (a profile that does not exist): the
\* exception leaves AWSAnalyzer.__init__, _analyze_aws and analyze
AnalyzeAwsSessionFails ==
    /\ AtProvider("aws")
    /\ Exit("raised")
    /\ UNCHANGED <<config, api_key, results, calls, saved, merge_log, probe>>

\* _analyze_aws, regions is None: "for region in self.regions" of the first
\* probe raises TypeError outside its try block, before anything is merged
AnalyzeAwsRegionsNone ==
    /\ AtProvider("aws")
    /\ ~RegionsIterable(AwsConfig)
    /\ Exit("raised")
    /\ UNCHANGED <<config, api_key, results, calls, saved, merge_log, probe>>

\* config = self.config.get(section, {}); if id: config[key] = id
ProviderConfig(cfg, section, key, id) ==
    IF Truthy(id) THEN With(Get(cfg, section, EmptyDict), key, id)
    ELSE Get(cfg, section, EmptyDict)

\* self.config after that assignment: the section is the analyzer's own dict when
\* it exists, and a temporary otherwise
ConfigAfter(cfg, section, key, id) ==
    IF Truthy(id) /\ section \in DOMAIN cfg
    THEN [cfg EXCEPT ![section] = With(cfg[section], key, id)]
    ELSE cfg

\* AzureAnalyzer.__init__ / GCPAnalyzer.__init__: if not self.<id>: raise ValueError
MissingId(provider_config, key) == ~Truthy(Get(provider_config, key, None))

\* _analyze_azure, AzureAnalyzer constructed
AnalyzeAzure ==
    /\ AtProvider("azure")
    /\ ~MissingId(ProviderConfig(config, "azure", "subscription_id",
                                 call.azure_subscription_id), "subscription_id")
    /\ config' = ConfigAfter(config, "azure", "subscription_id", call.azure_subscription_id)
    /\ \E cloud \in AzureClouds : Merge(AzureAnalyze(cloud))
    /\ pos' = pos + 1
    /\ UNCHANGED <<api_key, pc, providers_to_analyze, call, calls, outcome, saved,
                   merge_log, probe>>

\* _analyze_azure, AzureAnalyzer.__init__ raises ValueError("Azure subscription_id
\* is required"); nothing up to the caller of analyze catches it
AnalyzeAzureRaises ==
    /\ AtProvider("azure")
    /\ MissingId(ProviderConfig(config, "azure", "subscription_id",
                                call.azure_subscription_id), "subscription_id")
    /\ config' = ConfigAfter(config, "azure", "subscription_id", call.azure_subscription_id)
    /\ Exit("raised")
    /\ UNCHANGED <<api_key, results, calls, saved, merge_log, probe>>

\* _analyze_azure, DefaultAzureCredential() fails and AzureAnalyzer.__init__ raises
\* ValueError("Failed to authenticate with Azure"), which nothing catches either
AnalyzeAzureAuthFails ==
    /\ AtProvider("azure")
    /\ ~MissingId(ProviderConfig(config, "azure", "subscription_id",
                                 call.azure_subscription_id), "subscription_id")
    /\ config' = ConfigAfter(config, "azure", "subscription_id", call.azure_subscription_id)
    /\ Exit("raised")
    /\ UNCHANGED <<api_key, results, calls, saved, merge_log, probe>>

\* _analyze_gcp, GCPAnalyzer constructed
AnalyzeGcp ==
    /\ AtProvider("gcp")
    /\ ~MissingId(ProviderConfig(config, "gcp", "project_id", call.gcp_project_id),
                  "project_id")
    /\ config' = ConfigAfter(config, "gcp", "project_id", call.gcp_project_id)
    /\ \E cloud \in GcpClouds : Merge(GcpAnalyze(cloud))
    /\ pos' = pos + 1
    /\ UNCHANGED <<api_key, pc, providers_to_analyze, call, calls, outcome, saved,
                   merge_log, probe>>

\* _analyze_gcp, GCPAnalyzer.__init__ raises ValueError: no project_id
AnalyzeGcpRaises ==
    /\ AtProvider("gcp")
    /\ MissingId(ProviderConfig(config, "gcp", "project_id", call.gcp_project_id),
                 "project_id")
    /\ config' = ConfigAfter(config, "gcp", "project_id", call.gcp_project_id)
    /\ Exit("raised")
    /\ UNCHANGED <<api_key, results, calls, saved, merge_log, probe>>

\* the test of ai.enabled with True as its default
AiRequestedByDefault == Get(Get(config, "ai", EmptyDict), "enabled", TRUE)

\* self.config.get('ai', {}).get('enabled', False)
AiRequested == Get(Get(config, "ai", EmptyDict), "enabled", FALSE)

\* _apply_ai_insights extending the list it finds instead of assigning a new one
ApplyAiInsightsExtends ==
    /\ pc = "scan"
    /\ pos > Len(providers_to_analyze)
    /\ AiRequested
    /\ \E raises \in BOOLEAN :
          results' = [results EXCEPT !.recommendations =
                         @ \o EnhanceRecommendations(
                                 EngineEnabled(Get(config, "ai", EmptyDict), api_key),
                                 results.categories, raises)]
    /\ pc' = "save"
    /\ UNCHANGED <<config, api_key, providers_to_analyze, pos, call, calls, outcome,
                   saved, merge_log, probe>>

\* _apply_ai_insights with an engine that deletes the buckets without findings
\* from the map it is given
ApplyAiInsightsPrunes ==
    /\ pc = "scan"
    /\ pos > Len(providers_to_analyze)
    /\ AiRequested
    /\ \E raises \in BOOLEAN :
          results' = [results EXCEPT
                        !.recommendations =
                            EnhanceRecommendations(
                                EngineEnabled(Get(config, "ai", EmptyDict), api_key),
                                results.categories, raises),
                        !.categories = SelectSeq(@, LAMBDA e : HasFindings(e.val))]
    /\ pc' = "save"
    /\ UNCHANGED <<config, api_key, providers_to_analyze, pos, call, calls, outcome,
                   saved, merge_log, probe>>

\* the for-loop is over and ai.enabled is set: _apply_ai_insights
ApplyAiInsights ==
    /\ pc = "scan"
    /\ pos > Len(providers_to_analyze)
    /\ AiRequested
    /\ \E raises \in BOOLEAN :
          results' = [results EXCEPT !.recommendations =
                         EnhanceRecommendations(
                             EngineEnabled(Get(config, "ai", EmptyDict), api_key),
                             results.categories, raises)]
    /\ pc' = "save"
    /\ UNCHANGED <<config, api_key, providers_to_analyze, pos, call, calls, outcome,
                   saved, merge_log, probe>>

\* the for-loop is over and ai.enabled is not set
SkipAiInsights ==
    /\ pc = "scan"
    /\ pos > Len(providers_to_analyze)
    /\ ~AiRequested
    /\ pc' = "save"
    /\ UNCHANGED <<config, api_key, results, providers_to_analyze, pos, call, calls,
                   outcome, saved, merge_log, probe>>

\* _save_results, and analyze returns self.results
SaveResults ==
    /\ pc = "save"
    /\ saved' = <<results>>
    /\ Exit("returned")
    /\ UNCHANGED <<config, api_key, results, calls, merge_log, probe>>

StartAnalyze ==
    \E c \in Calls : Analyze(c.provider, c.azure_subscription_id, c.gcp_project_id)

Next ==
    \/ StartAnalyze
    \/ AnalyzeAws
    \/ AnalyzeAwsSessionFails
    \/ AnalyzeAwsRegionsNone
    \/ AnalyzeAzure
    \/ AnalyzeAzureRaises
    \/ AnalyzeAzureAuthFails
    \/ AnalyzeGcp
    \/ AnalyzeGcpRaises
    \/ ApplyAiInsights
    \/ SkipAiInsights
    \/ SaveResults

Spec == Init /\ [][Next]_vars

-----------------------------------------------------------------------------
(* The merge loop on arbitrary provider results.  The loop is the same in       *)
(* _analyze_aws, _analyze_azure and _analyze_gcp; here it is fed result maps a   *)
(* provider class may be replaced with: any categories, any entries, entries     *)
(* that lack count, savings or items.                                            *)

MaxMerges == 2

\* Category entries: the result of a probe that flagged one or two resources,
\* the same with one key dropped, and the empty dict
PayloadEntries ==
    { ProbeResult(Findings(1)),
      ProbeResult(Findings(2)),
      [savings |-> SumSavings(Findings(2)), items |-> Findings(2)],
      [count |-> 2, items |-> Findings(2)],
      [count |-> 1, savings |-> SumSavings(Findings(1))],
      EmptyDict }

\* Provider result maps over two categories, one of them shared with nobody
Payloads ==
    {<<>>}
    \cup { <<[key |-> k, val |-> e]>> : k \in {"EBS Volumes", "Snapshots"},
                                        e \in PayloadEntries }
    \cup { <<[key |-> "EBS Volumes", val |-> e1], [key |-> "Snapshots", val |-> e2]>> :
             e1 \in PayloadEntries, e2 \in PayloadEntries }

MergeInit ==
    /\ config = EmptyDict
    /\ api_key = FALSE
    /\ results = NewResults
    /\ pc = "idle"
    /\ providers_to_analyze = <<>>
    /\ pos = 0
    /\ call = NoCall
    /\ calls = 0
    /\ outcome = None
    /\ saved = <<>>
    /\ merge_log = <<>>
    /\ probe = <<>>

\* The merge loop (analyzer.py lines 75-82) run on provider_results
MergePayload(provider_results) ==
    /\ Len(merge_log) < MaxMerges
    /\ Merge(provider_results)
    /\ merge_log' = Append(merge_log, provider_results)
    /\ UNCHANGED <<config, api_key, pc, providers_to_analyze, pos, call, calls, outcome,
                   saved, probe>>

MergeNext == \E p \in Payloads : MergePayload(p)

MergeSpec == MergeInit /\ [][MergeNext]_vars

-----------------------------------------------------------------------------
(* _calculate_priority on its own: probe holds the arguments, then the result *)

\* Amounts in cents, at and next to the thresholds: 1000.00, 1000.01, 10000.01
SavingsCents == {0, 50000, 100000, 100001, 100100, 500000, 1000000, 1000001, 1001000,
                 1500000}
CountSamples == {0, 5, 10, 11, 20, 50, 51, 60}

PriorityInit ==
    /\ config = EmptyDict
    /\ api_key = FALSE
    /\ results = NewResults
    /\ pc = "idle"
    /\ providers_to_analyze = <<>>
    /\ pos = 0
    /\ call = NoCall
    /\ calls = 0
    /\ outcome = None
    /\ saved = <<>>
    /\ merge_log = <<>>
    /\ \E c \in SavingsCents, count \in CountSamples :
          probe = [cents |-> c, savings |-> Decimal(c, 2), count |-> count,
                   out |-> <<>>, again |-> <<>>]

\* engine._calculate_priority(savings, count)
CallCalculatePriority ==
    /\ probe.out = <<>>
    /\ probe' = [probe EXCEPT !.out = <<CalculatePriority(probe.savings, probe.count)>>]
    /\ UNCHANGED <<config, api_key, results, pc, providers_to_analyze, pos, call, calls,
                   outcome, saved, merge_log>>

\* engine._calculate_priority once more, for the category after further findings
\* with non-negative savings were merged into it: neither argument is smaller
CallCalculatePriorityAgain ==
    /\ probe.out # <<>>
    /\ probe.again = <<>>
    /\ \E s \in SavingsCents, c \in CountSamples :
          /\ s >= probe.cents
          /\ c >= probe.count
          /\ probe' = [probe EXCEPT !.again =
                          <<[cents |-> s, savings |-> Decimal(s, 2), count |-> c,
                             out |-> CalculatePriority(Decimal(s, 2), c)]>>]
    /\ UNCHANGED <<config, api_key, results, pc, providers_to_analyze, pos, call, calls,
                   outcome, saved, merge_log>>

PriorityNext ==
    \/ CallCalculatePriority
    \/ CallCalculatePriorityAgain

PrioritySpec == PriorityInit /\ [][PriorityNext]_vars

-----------------------------------------------------------------------------
(* InsightEngine on its own: an engine is constructed from an ai section and   *)
(* the environment, and enhance_recommendations is called on a category map.   *)
(* probe holds the section, the map, self.enabled, whether the enhanced path    *)
(* raised during the call, and the returned list.                              *)

MaxCategories == 3

CategoryNames == {"EC2 Instances", "EBS Volumes", "Elastic IPs", "Widgets"}

\* Buckets as the analyzer builds them, and buckets that lack a key
EngineBuckets ==
    { [count |-> 0, savings |-> Float(500), items |-> <<>>],
      [savings |-> Float(900)],
      [count |-> 3],
      [count |-> 5, savings |-> Float(500), items |-> <<>>],
      [count |-> 60, savings |-> Float(900), items |-> <<>>] }

\* Category maps of n entries: the keys of a dict are distinct
CategoryMaps(n) ==
    { m \in [1..n -> [key : CategoryNames, val : EngineBuckets]] :
        \A i, j \in 1..n : m[i].key = m[j].key => i = j }

\* An engine: the ai section it is constructed with, and whether the key is set
EngineSetups ==
    { [ai |-> [enabled |-> FALSE], api_key |-> FALSE],
      [ai |-> EmptyDict, api_key |-> TRUE],
      [ai |-> [enabled |-> TRUE], api_key |-> FALSE],
      [ai |-> [enabled |-> TRUE], api_key |-> TRUE] }

\* The three categories of the end-to-end example, as create_demo_data has them:
\* the counts and savings of the example, and the items listed under them
ExampleBucket(category) ==
    CASE category = "EC2 Instances" ->
           [count |-> 23, savings |-> Decimal(1845000, 2),
            items |->
              << [resource_id |-> "i-1234567890abcdef0",
                  resource_type |-> "EC2 Instance",
                  region |-> "us-east-1",
                  issue |-> "Low CPU utilization (8%)",
                  current_config |-> "m5.xlarge",
                  recommendation |-> "Downsize to m5.large",
                  cpu_utilization |-> Decimal(80, 1),
                  estimated_monthly_savings |-> Decimal(80000, 2),
                  confidence |-> Decimal(94, 2)],
                 [resource_id |-> "i-0987654321fedcba0",
                  resource_type |-> "EC2 Instance",
                  region |-> "us-west-2",
                  issue |-> "Low CPU utilization (5%)",
                  current_config |-> "m5.2xlarge",
                  recommendation |-> "Downsize to m5.xlarge",
                  cpu_utilization |-> Decimal(50, 1),
                  estimated_monthly_savings |-> Decimal(140000, 2),
                  confidence |-> Decimal(96, 2)] >>]
      [] category = "EBS Volumes" ->
           [count |-> 156, savings |-> Decimal(1234000, 2),
            items |->
              << [resource_id |-> "vol-1234567890abcdef0",
                  resource_type |-> "EBS Volume",
                  region |-> "us-east-1",
                  issue |-> "Unattached volume",
                  current_config |-> "100GB gp2",
                  recommendation |-> "Delete if not needed or create snapshot",
                  estimated_monthly_savings |-> Decimal(1000, 2),
                  confidence |-> Decimal(99, 2)] >>]
      [] category = "Elastic IPs" ->
           [count |-> 12, savings |-> Decimal(4320, 2),
            items |->
              << [resource_id |-> "eipalloc-1234567890abcdef0",
                  resource_type |-> "Elastic IP",
                  region |-> "us-east-1",
                  issue |-> "Unattached Elastic IP",
                  recommendation |-> "Release if not needed",
                  estimated_monthly_savings |-> Decimal(360, 2),
                  confidence |-> Decimal(10, 1)] >>]

ExampleNames == {"EC2 Instances", "EBS Volumes", "Elastic IPs"}

\* The example's categories in every insertion order
ExampleMaps ==
    { [i \in 1..3 |-> [key |-> order[i], val |-> ExampleBucket(order[i])]] :
        order \in {o \in [1..3 -> ExampleNames] : \A i, j \in 1..3 : o[i] = o[j] => i = j} }

EngineInit ==
    /\ config = EmptyDict
    /\ results = NewResults
    /\ pc = "idle"
    /\ providers_to_analyze = <<>>
    /\ pos = 0
    /\ call = NoCall
    /\ calls = 0
    /\ outcome = None
    /\ saved = <<>>
    /\ merge_log = <<>>
    /\ \E e \in EngineSetups, n \in 0..MaxCategories :
          \E m \in CategoryMaps(n) \cup ExampleMaps :
              /\ api_key = e.api_key
              /\ probe = [ai |-> e.ai, categories |-> m,
                          enabled |-> EngineEnabled(e.ai, e.api_key),
                          raised |-> FALSE, out |-> <<>>]

\* Whether the enhanced path raises during a call: it is entered only by an
\* enabled engine
CallOutcomes(enabled) == IF enabled THEN BOOLEAN ELSE {FALSE}

\* the engine returns no recommendation when enhanced mode was requested and the
\* credential is absent
CallEnhanceRecommendationsKeyless ==
    /\ probe.out = <<>>
    /\ \E raises \in CallOutcomes(probe.enabled) :
          probe' = [probe EXCEPT
                      !.raised = probe.enabled /\ raises,
                      !.out = IF Get(probe.ai, "enabled", FALSE) /\ ~api_key
                              THEN << <<>> >>
                              ELSE <<EnhanceRecommendations(probe.enabled, probe.categories,
                                                            raises)>>]
    /\ UNCHANGED <<config, api_key, results, pc, providers_to_analyze, pos, call, calls,
                   outcome, saved, merge_log>>

\* engine.enhance_recommendations(categories) on the constructed engine
CallEnhanceRecommendations ==
    /\ probe.out = <<>>
    /\ \E raises \in CallOutcomes(probe.enabled) :
          probe' = [probe EXCEPT
                      !.raised = probe.enabled /\ raises,
                      !.out = <<EnhanceRecommendations(probe.enabled, probe.categories,
                                                      raises)>>]
    /\ UNCHANGED <<config, api_key, results, pc, providers_to_analyze, pos, call, calls,
                   outcome, saved, merge_log>>

EngineNext == CallEnhanceRecommendations

EngineSpec == EngineInit /\ [][EngineNext]_vars

-----------------------------------------------------------------------------
(* The three lookups by category name on their own: _get_category_recommendation, *)
(* _assess_risk and _assess_effort are called on a name, every name of the table  *)
(* and names it does not have.  probe holds the name and what each call returned. *)

UnknownCategories == {"Widgets", "Snapshots", "ec2 instances", ""}

CategoryInit ==
    /\ config = EmptyDict
    /\ api_key = FALSE
    /\ results = NewResults
    /\ pc = "idle"
    /\ providers_to_analyze = <<>>
    /\ pos = 0
    /\ call = NoCall
    /\ calls = 0
    /\ outcome = None
    /\ saved = <<>>
    /\ merge_log = <<>>
    /\ \E c \in KnownCategories \cup UnknownCategories :
          probe = [category |-> c, recommendation |-> <<>>, risk_level |-> <<>>,
                   effort |-> <<>>]

CallGetCategoryRecommendation ==
    /\ probe.recommendation = <<>>
    /\ probe' = [probe EXCEPT !.recommendation = <<GetCategoryRecommendation(probe.category)>>]
    /\ UNCHANGED <<config, api_key, results, pc, providers_to_analyze, pos, call, calls,
                   outcome, saved, merge_log>>

CallAssessRisk ==
    /\ probe.risk_level = <<>>
    /\ probe' = [probe EXCEPT !.risk_level = <<AssessRisk(probe.category)>>]
    /\ UNCHANGED <<config, api_key, results, pc, providers_to_analyze, pos, call, calls,
                   outcome, saved, merge_log>>

CallAssessEffort ==
    /\ probe.effort = <<>>
    /\ probe' = [probe EXCEPT !.effort = <<AssessEffort(probe.category)>>]
    /\ UNCHANGED <<config, api_key, results, pc, providers_to_analyze, pos, call, calls,
                   outcome, saved, merge_log>>

CategoryNext ==
    \/ CallGetCategoryRecommendation
    \/ CallAssessRisk
    \/ CallAssessEffort

CategorySpec == CategoryInit /\ [][CategoryNext]_vars

-----------------------------------------------------------------------------
(* Script generator: ScriptGenerator.  A generated file is the sequence of its  *)
(* statements; a statement records what it is, whether the text is behind '#',  *)
(* and the resource it names (EmptyId when it names none).                      *)

MaxItems == 4
MaxScriptCategories == 2

\* item.get('resource_id', ''): the empty string
EmptyId == ""

\* [:5] of _generate_ebs_terraform, [:3] of _generate_s3_terraform, [:10] of
\* _generate_aws_cleanup_script
EbsTerraformLimit == 5
S3TerraformLimit == 3
CleanupLimit == 10

Statement(kind, commented, resource_id) ==
    [statement |-> kind, commented |-> commented, resource_id |-> resource_id]

\* items[:n]
Take(items, n) == SubSeq(items, 1, IF Len(items) < n THEN Len(items) ELSE n)

\* word in category, for the category names of the probes and one other name
Mentions(category, word) ==
    category \in
      CASE word = "EBS" -> {"EBS Volumes"}
        [] word = "Disk" -> {"Managed Disks", "Persistent Disks"}
        [] word = "S3" -> {"S3 Storage"}
        [] word = "Storage" -> {"S3 Storage", "Storage Accounts", "Cloud Storage"}
        [] word = "EC2" -> {"EC2 Instances"}
        [] word = "Elastic" -> {"Elastic IPs"}
        [] word = "Virtual" -> {"Virtual Machines"}
        [] word = "Managed" -> {"Managed Disks"}
        [] word = "Compute" -> {"Compute Instances"}
        [] word = "Persistent" -> {"Persistent Disks"}

RECURSIVE ForItems(_, _, _)
\* for item in items: id = item.get('resource_id', ''); if id: <one statement>
ForItems(items, kind, commented) ==
    IF items = <<>> THEN <<>>
    ELSE LET id == Get(Head(items), "resource_id", EmptyId)
         IN  (IF Truthy(id) THEN <<Statement(kind, commented, id)>> ELSE <<>>)
             \o ForItems(Tail(items), kind, commented)

\* _get_terraform_header
TerraformHeader ==
    << Statement("comment", TRUE, EmptyId),
       Statement("terraform settings", FALSE, EmptyId),
       Statement("provider aws", FALSE, EmptyId) >>

\* _generate_ebs_terraform: each resource block is written behind '#'
GenerateEbsTerraform(data) ==
    <<Statement("comment", TRUE, EmptyId)>>
    \o ForItems(Take(Get(data, "items", <<>>), EbsTerraformLimit),
                "resource aws_ebs_volume", TRUE)

\* _generate_s3_terraform: the resource block is written as it is, not behind '#'
GenerateS3Terraform(data) ==
    <<Statement("comment", TRUE, EmptyId)>>
    \o ForItems(Take(Get(data, "items", <<>>), S3TerraformLimit),
                "resource aws_s3_bucket_lifecycle_configuration", FALSE)

RECURSIVE TerraformResources(_)
\* for category, cat_data in data.get('categories', {}).items(): if ... elif ...
TerraformResources(categories) ==
    IF categories = <<>> THEN <<>>
    ELSE LET category == Head(categories).key
             cat_data == Head(categories).val
         IN  (IF Mentions(category, "EBS") \/ Mentions(category, "Disk")
              THEN GenerateEbsTerraform(cat_data)
              ELSE IF Mentions(category, "S3") \/ Mentions(category, "Storage")
              THEN GenerateS3Terraform(cat_data)
              ELSE <<>>)
             \o TerraformResources(Tail(categories))

\* _get_terraform_variables
TerraformVariables ==
    << Statement("variable aws_region", FALSE, EmptyId),
       Statement("variable dry_run", FALSE, EmptyId) >>

\* _get_terraform_readme
TerraformReadme == << Statement("text", FALSE, EmptyId) >>

\* _generate_terraform: main.tf, variables.tf, README.md
GenerateTerraform(data) ==
    [f \in {"main.tf", "variables.tf", "README.md"} |->
        CASE f = "main.tf" ->
                TerraformHeader \o TerraformResources(Get(data, "categories", <<>>))
          [] f = "variables.tf" -> TerraformVariables
          [] f = "README.md" -> TerraformReadme]


\* data.get('categories', {}).get(category, {})
CategoryData(data, category) ==
    LET categories == Get(data, "categories", <<>>)
    IN  IF Has(categories, category) THEN Lookup(categories, category) ELSE EmptyDict

\* any(<word> in cat ... for cat in data.get('categories', {}).keys())
AnyMentions(data, words) ==
    \E category \in Keys(Get(data, "categories", <<>>)) :
        \E word \in words : Mentions(category, word)

\* The commands of _generate_aws_cleanup_script for one category: nothing when
\* the category has no items, else a comment, an echo and one command per item
\* with a resource_id, each command behind '#'
CleanupCommands(data, category, command) ==
    LET items == Get(CategoryData(data, category), "items", <<>>)
    IN  IF items = <<>> THEN <<>>
        ELSE << Statement("comment", TRUE, EmptyId),
                Statement("echo", FALSE, EmptyId) >>
             \o ForItems(Take(items, CleanupLimit), command, TRUE)

\* _generate_aws_cleanup_script
GenerateAwsCleanupScript(data) ==
    << Statement("comment", TRUE, EmptyId),
       Statement("set -e", FALSE, EmptyId),
       Statement("echo", FALSE, EmptyId),
       Statement("read confirm", FALSE, EmptyId),
       Statement("exit unless confirmed", FALSE, EmptyId),
       Statement("AWS_REGION=", FALSE, EmptyId),
       Statement("echo", FALSE, EmptyId) >>
    \o CleanupCommands(data, "EBS Volumes", "aws ec2 delete-volume")
    \o CleanupCommands(data, "Elastic IPs", "aws ec2 release-address")
    \o << Statement("echo", FALSE, EmptyId) >>

\* _generate_azure_cleanup_script
GenerateAzureCleanupScript(data) ==
    << Statement("comment", TRUE, EmptyId),
       Statement("set -e", FALSE, EmptyId),
       Statement("echo", FALSE, EmptyId),
       Statement("az disk delete", TRUE, EmptyId),
       Statement("echo", FALSE, EmptyId) >>

\* _generate_gcp_cleanup_script
GenerateGcpCleanupScript(data) ==
    << Statement("comment", TRUE, EmptyId),
       Statement("set -e", FALSE, EmptyId),
       Statement("echo", FALSE, EmptyId),
       Statement("gcloud compute disks delete", TRUE, EmptyId),
       Statement("echo", FALSE, EmptyId) >>

\* _generate_shell_scripts: one cleanup script per provider whose categories
\* are among the keys
GenerateShellScripts(data) ==
    LET written ==
          (IF AnyMentions(data, {"EC2", "EBS", "Elastic"}) THEN {"cleanup_aws.sh"} ELSE {})
          \cup (IF AnyMentions(data, {"Virtual", "Managed"}) THEN {"cleanup_azure.sh"} ELSE {})
          \cup (IF AnyMentions(data, {"Compute", "Persistent"}) THEN {"cleanup_gcp.sh"} ELSE {})
    IN  [f \in written |->
            CASE f = "cleanup_aws.sh" -> GenerateAwsCleanupScript(data)
              [] f = "cleanup_azure.sh" -> GenerateAzureCleanupScript(data)
              [] f = "cleanup_gcp.sh" -> GenerateGcpCleanupScript(data)]

\* ScriptGenerator.generate: the files it writes
Generate(data, script_type) ==
    LET tf_files == IF script_type \in {"terraform", "all"}
                    THEN GenerateTerraform(data) ELSE EmptyDict
        shell_files == IF script_type \in {"shell", "all"}
                       THEN GenerateShellScripts(data) ELSE EmptyDict
    IN  [f \in DOMAIN tf_files \cup DOMAIN shell_files |->
            IF f \in DOMAIN tf_files THEN tf_files[f] ELSE shell_files[f]]

(* generate called on analysis data: category maps of up to                    *)
(* MaxScriptCategories categories, whose items are those of a probe, or lack a  *)
(* resource_id, or are absent.                                                  *)

ScriptTypes == {"terraform", "shell", "all"}

ScriptCategoryNames ==
    {"EBS Volumes", "Elastic IPs", "S3 Storage", "Managed Disks", "Cloud Storage",
     "Compute Instances", "Widgets"}

\* A finding without a resource_id
AnonymousItem == [estimated_monthly_savings |-> Float(40)]

ScriptBuckets ==
    { ProbeResult(Findings(k)) : k \in {0, 1, MaxItems} }
    \cup { ProbeResult(<<AnonymousItem, Finding(1)>>), EmptyDict }

\* Analysis data of n categories (the keys of a dict are distinct), and the
\* data without a categories key
ScriptData(n) ==
    {EmptyDict}
    \cup { [categories |-> m] :
             m \in { c \in [1..n -> [key : ScriptCategoryNames, val : ScriptBuckets]] :
                       \A i, j \in 1..n : c[i].key = c[j].key => i = j } }

ScriptInit ==
    /\ config = EmptyDict
    /\ api_key = FALSE
    /\ results = NewResults
    /\ pc = "idle"
    /\ providers_to_analyze = <<>>
    /\ pos = 0
    /\ call = NoCall
    /\ calls = 0
    /\ outcome = None
    /\ saved = <<>>
    /\ merge_log = <<>>
    /\ \E n \in 0..MaxScriptCategories :
          \E d \in ScriptData(n) :
              probe = [data |-> d, script_type |-> None, files |-> EmptyDict]

CallGenerate ==
    /\ probe.script_type = None
    /\ \E t \in ScriptTypes :
          probe' = [probe EXCEPT !.script_type = t, !.files = Generate(probe.data, t)]
    /\ UNCHANGED <<config, api_key, results, pc, providers_to_analyze, pos, call, calls,
                   outcome, saved, merge_log>>

ScriptNext == CallGenerate

ScriptSpec == ScriptInit /\ [][ScriptNext]_vars

-----------------------------------------------------------------------------
(* The merge loop run by two provider merges at once.  The analyzer runs its    *)
(* merges one after the other; here the statements of one iteration of the loop *)
(* are taken by two threads on the same run result and the same category key,   *)
(* each statement split where the interpreter may switch threads: between the   *)
(* read of a field and the store of the sum, and between the test for the key   *)
(* and the creation of the bucket.  A store goes to the bucket object the       *)
(* thread loaded; probe.gen counts the bucket objects created under the key, so *)
(* a store to an object that has since been replaced changes nothing in the     *)
(* map.  With probe.guarded a thread holds a lock around its iteration.         *)

Threads == {1, 2}

SharedCategory == "EBS Volumes"

\* self.results['categories'][category]
SharedBucket == Lookup(results.categories, SharedCategory)

ThreadAt(t, at) == probe.threads[t].pc = at

\* Run results the two merges start from: no bucket under the key, or the bucket
\* an earlier merge left
SharedResults ==
    { NewResults,
      MergeCategory(NewResults, SharedCategory, ProbeResult(Findings(1))) }

ConcurrentInit ==
    /\ config = EmptyDict
    /\ api_key = FALSE
    /\ pc = "idle"
    /\ providers_to_analyze = <<>>
    /\ pos = 0
    /\ call = NoCall
    /\ calls = 0
    /\ outcome = None
    /\ saved = <<>>
    /\ merge_log = <<>>
    /\ results \in SharedResults
    /\ \E guarded \in BOOLEAN, k \in [Threads -> 1..MaxFindings] :
          probe = [guarded |-> guarded, lock |-> {}, gen |-> 0, base |-> results,
                   threads |-> [t \in Threads |->
                                   [pc |-> "start", data |-> ProbeResult(Findings(k[t])),
                                    ref |-> 0, reg |-> 0]]]

\* The frame of a step of a thread
OnlySharedState ==
    UNCHANGED <<config, api_key, pc, providers_to_analyze, pos, call, calls, outcome,
                saved, merge_log>>

\* A thread enters its iteration; under mutual exclusion, when no thread is in one
Acquire(t) ==
    /\ ThreadAt(t, "start")
    /\ probe.guarded => probe.lock = {}
    /\ probe' = [probe EXCEPT !.threads[t].pc = "check",
                              !.lock = IF probe.guarded THEN {t} ELSE @]
    /\ UNCHANGED results
    /\ OnlySharedState

\* if category not in self.results['categories']:
CheckCategory(t) ==
    /\ ThreadAt(t, "check")
    /\ probe' = [probe EXCEPT !.threads[t].pc =
                    IF Has(results.categories, SharedCategory) THEN "load count"
                    ELSE "create"]
    /\ UNCHANGED results
    /\ OnlySharedState

\* self.results['categories'][category] = {'count': 0, 'savings': 0, 'items': []}
CreateBucket(t) ==
    /\ ThreadAt(t, "create")
    /\ results' = [results EXCEPT !.categories = Put(@, SharedCategory, EmptyBucket)]
    /\ probe' = [probe EXCEPT !.threads[t].pc = "load count", !.gen = @ + 1]
    /\ OnlySharedState

\* The left side of a += : the bucket is loaded and its field read
LoadField(t, at, field, next) ==
    /\ ThreadAt(t, at)
    /\ probe' = [probe EXCEPT !.threads[t].pc = next,
                              !.threads[t].ref = probe.gen,
                              !.threads[t].reg = SharedBucket[field]]
    /\ UNCHANGED results
    /\ OnlySharedState

\* The store of a += : the field of the loaded bucket is set to the sum computed
\* from the value read
StoreField(t, at, field, sum, next) ==
    /\ ThreadAt(t, at)
    /\ results' =
          IF probe.threads[t].ref = probe.gen
          THEN [results EXCEPT !.categories =
                   Put(@, SharedCategory, [SharedBucket EXCEPT ![field] = sum])]
          ELSE results
    /\ probe' = [probe EXCEPT !.threads[t].pc = next]
    /\ OnlySharedState

\* The bucket as the thread read it
Seen(t, field) == [SharedBucket EXCEPT ![field] = probe.threads[t].reg]

\* ...['count'] += data.get('count', 0)
LoadCount(t) == LoadField(t, "load count", "count", "store count")

StoreCount(t) ==
    StoreField(t, "store count", "count",
               AddCount(Seen(t, "count"), probe.threads[t].data).count, "load savings")

\* ...['savings'] += data.get('savings', 0)
LoadSavings(t) == LoadField(t, "load savings", "savings", "store savings")

StoreSavings(t) ==
    StoreField(t, "store savings", "savings",
               AddSavings(Seen(t, "savings"), probe.threads[t].data).savings, "load items")

\* ...['items'].extend(data.get('items', [])): the list is loaded, then extended
\* in one step of the interpreter
LoadItems(t) ==
    /\ ThreadAt(t, "load items")
    /\ probe' = [probe EXCEPT !.threads[t].pc = "extend items",
                              !.threads[t].ref = probe.gen]
    /\ UNCHANGED results
    /\ OnlySharedState

ExtendItemsStep(t) ==
    StoreField(t, "extend items", "items",
               ExtendItems(SharedBucket, probe.threads[t].data).items, "load total")

\* self.results['total_savings'] += data.get('savings', 0)
LoadTotal(t) ==
    /\ ThreadAt(t, "load total")
    /\ probe' = [probe EXCEPT !.threads[t].pc = "store total",
                              !.threads[t].reg = results.total_savings]
    /\ UNCHANGED results
    /\ OnlySharedState

StoreTotal(t) ==
    /\ ThreadAt(t, "store total")
    /\ results' = [results EXCEPT !.total_savings =
                      AddTotal(probe.threads[t].reg, probe.threads[t].data)]
    /\ probe' = [probe EXCEPT !.threads[t].pc = "release"]
    /\ OnlySharedState

\* The thread leaves its iteration
Release(t) ==
    /\ ThreadAt(t, "release")
    /\ probe' = [probe EXCEPT !.threads[t].pc = "done", !.lock = @ \ {t}]
    /\ UNCHANGED results
    /\ OnlySharedState

ConcurrentNext ==
    \E t \in Threads :
        \/ Acquire(t)
        \/ CheckCategory(t)
        \/ CreateBucket(t)
        \/ LoadCount(t)
        \/ StoreCount(t)
        \/ LoadSavings(t)
        \/ StoreSavings(t)
        \/ LoadItems(t)
        \/ ExtendItemsStep(t)
        \/ LoadTotal(t)
        \/ StoreTotal(t)
        \/ Release(t)

ConcurrentSpec == ConcurrentInit /\ [][ConcurrentNext]_vars

-----------------------------------------------------------------------------
(* Properties.  The operators below are read by the properties only. *)

Reverse(s) == [i \in 1..Len(s) |-> s[Len(s) + 1 - i]]

\* The bucket of k in a category map, or the zero bucket a merge starts from
BucketOrZero(categories, k) ==
    IF Has(categories, k) THEN Lookup(categories, k)
    ELSE [count |-> 0, savings |-> Zero, items |-> <<>>]

\* x <= y
FloatLeq(x, y) == ~FloatLess(y, x)

RECURSIVE ItemSavings(_)
\* The sum of the items' estimated_monthly_savings, added from the left with
\* float additions, as the probes add them
ItemSavings(items) ==
    IF items = <<>> THEN Zero
    ELSE FloatAdd(ItemSavings(SubSeq(items, 1, Len(items) - 1)),
                  items[Len(items)].estimated_monthly_savings)

RECURSIVE BucketSavings(_)
\* sum(b.savings for b in categories.values()), added the same way
BucketSavings(categories) ==
    IF categories = <<>> THEN Zero
    ELSE FloatAdd(BucketSavings(SubSeq(categories, 1, Len(categories) - 1)),
                  categories[Len(categories)].val.savings)

\* The number x + y itself, not rounded: m * 2^e with m of any length
ExactAdd(x, y) ==
    LET e == IF x.e < y.e THEN x.e ELSE y.e
    IN  IF x.m = <<>> THEN y
        ELSE IF y.m = <<>> THEN x
        ELSE [m |-> NatAdd(NatShiftLeft(x.m, x.e - e), NatShiftLeft(y.m, y.e - e)),
              e |-> e]

RECURSIVE ExactSum(_)
\* The sum of a list of floats as a number, without rounding
ExactSum(values) ==
    IF values = <<>> THEN Zero ELSE ExactAdd(Head(values), ExactSum(Tail(values)))

\* x and y are the same number
SameNumber(x, y) ==
    LET e == IF x.e < y.e THEN x.e ELSE y.e
    IN  IF x.m = <<>> \/ y.m = <<>> THEN x.m = y.m
        ELSE NatShiftLeft(x.m, x.e - e) = NatShiftLeft(y.m, y.e - e)

IsPrefix(s, t) == Len(s) <= Len(t) /\ SubSeq(t, 1, Len(s)) = s

RECURSIVE MergeAll(_, _)
\* The provider result maps of log merged in order
MergeAll(res, log) ==
    IF log = <<>> THEN res ELSE MergeAll(MergeResults(res, Head(log)), Tail(log))

RECURSIVE Contributed(_, _)
\* The items the result maps of log gave to category k, in the order of log
Contributed(k, log) ==
    IF log = <<>> THEN <<>>
    ELSE (IF Has(Head(log), k) THEN Get(Lookup(Head(log), k), "items", <<>>) ELSE <<>>)
         \o Contributed(k, Tail(log))

\* The merge of this step read provider result map p
MergedHere(p) == merge_log' = Append(merge_log, p)

\* C1: a merge of a provider result map adds, for every category of the map, the
\* entry's count and savings to the bucket (a missing bucket starting from
\* {count 0, savings 0, items empty}) and appends the entry's items to the bucket's
\* items; the buckets of the other categories are unchanged, and no bucket is lost.
MergeAddsPerCategory ==
    [][\A p \in Payloads : MergedHere(p) =>
         /\ Keys(results'.categories) = Keys(results.categories) \cup Keys(p)
         /\ \A i \in 1..Len(p) :
              LET old == BucketOrZero(results.categories, p[i].key)
                  new == Lookup(results'.categories, p[i].key)
                  d   == p[i].val
              IN  /\ new.count = old.count + (IF "count" \in DOMAIN d THEN d.count ELSE 0)
                  /\ new.savings = FloatAdd(old.savings,
                                            IF "savings" \in DOMAIN d THEN d.savings
                                            ELSE Zero)
                  /\ new.items = old.items
                                 \o (IF "items" \in DOMAIN d THEN d.items ELSE <<>>)
         /\ \A k \in Keys(results.categories) \ Keys(p) :
              Lookup(results'.categories, k) = Lookup(results.categories, k)
      ]_vars

\* C1 witness: a bucket that already held findings has been merged into again
MergedTwiceIntoBucket ==
    /\ Len(merge_log) = 2
    /\ \E k \in Keys(merge_log[1]) \cap Keys(merge_log[2]) :
          /\ Get(Lookup(merge_log[1], k), "count", 0) > 0
          /\ Get(Lookup(merge_log[2], k), "count", 0) > 0
          /\ Lookup(results.categories, k).count = 3

\* C2: in an analyzer, after any provider merges, every bucket has
\* count = length of items and savings = sum of the items' estimated_monthly_savings.
BucketsMatchItems ==
    \A i \in 1..Len(results.categories) :
        LET b == results.categories[i].val
        IN  b.count = Len(b.items) /\ b.savings = ItemSavings(b.items)

\* C3: total_savings is the sum of the buckets' savings, at construction and
\* after every provider merge.
TotalIsSumOfBuckets ==
    results.total_savings = BucketSavings(results.categories)

\* C4: no step of an analyzer lowers total_savings, drops a bucket, or removes or
\* reorders the items a bucket already holds (they stay a prefix of its items).
TotalNeverDecreases ==
    [][/\ FloatLeq(results.total_savings, results'.total_savings)
       /\ \A k \in Keys(results.categories) :
            /\ Has(results'.categories, k)
            /\ IsPrefix(Lookup(results.categories, k).items,
                        Lookup(results'.categories, k).items)
      ]_vars

\* C4 witness: the merges of a second analyze call have raised the total that the
\* first call saved
SecondCallRaisedTotal ==
    /\ calls = 2
    /\ saved # <<>>
    /\ FloatLess(Zero, saved[1].total_savings)
    /\ FloatLess(saved[1].total_savings, results.total_savings)

\* C5: merging the result maps in the opposite order gives every category the same
\* count and the same savings, and the same total_savings; for two maps A and B,
\* A then B against B then A.
MergeOrderKeepsSums ==
    LET r == MergeAll(NewResults, Reverse(merge_log))
    IN  /\ Keys(r.categories) = Keys(results.categories)
        /\ r.total_savings = results.total_savings
        /\ \A k \in Keys(results.categories) :
             /\ Lookup(r.categories, k).count = Lookup(results.categories, k).count
             /\ Lookup(r.categories, k).savings = Lookup(results.categories, k).savings

\* C6: the items of every bucket are the items the merged result maps gave to its
\* category, concatenated in the order of the merges.
ItemsInMergeOrder ==
    \A i \in 1..Len(results.categories) :
        results.categories[i].val.items
        = Contributed(results.categories[i].key, merge_log)

\* C6 witness: a bucket holds one finding of the first merge followed by two of
\* the second
ItemsOfTwoMerges ==
    /\ Len(merge_log) = 2
    /\ \E k \in Keys(results.categories) :
          /\ Has(merge_log[1], k)
          /\ Has(merge_log[2], k)
          /\ Get(Lookup(merge_log[1], k), "items", <<>>) = Findings(1)
          /\ Get(Lookup(merge_log[2], k), "items", <<>>) = Findings(2)
          /\ Lookup(results.categories, k).items = Findings(1) \o Findings(2)

\* An entry of a provider result map that lacks count, savings or items
Partial(d) == DOMAIN d # {"count", "savings", "items"}

\* C7: a merge of a provider result map with an entry that lacks count, savings or
\* items leaves the bucket's field of each missing key as it was (0, 0 or empty in
\* a new bucket) and total_savings untouched by a missing savings, and merges the
\* keys that are present; every such map can be merged.
PartialEntriesMerge ==
    [][\A p \in Payloads : MergedHere(p) =>
         /\ \A i \in 1..Len(p) : Partial(p[i].val) =>
              LET old == BucketOrZero(results.categories, p[i].key)
                  new == Lookup(results'.categories, p[i].key)
                  d   == p[i].val
              IN  /\ DOMAIN new = {"count", "savings", "items"}
                  /\ "count" \notin DOMAIN d => new.count = old.count
                  /\ "savings" \notin DOMAIN d => new.savings = old.savings
                  /\ "items" \notin DOMAIN d => new.items = old.items
                  /\ "count" \in DOMAIN d => new.count = old.count + d.count
                  /\ "savings" \in DOMAIN d =>
                         new.savings = FloatAdd(old.savings, d.savings)
                  /\ "items" \in DOMAIN d => new.items = old.items \o d.items
         /\ (\A i \in 1..Len(p) : "savings" \notin DOMAIN p[i].val)
              => results'.total_savings = results.total_savings
      ]_vars

\* C7 witness: an entry without count and an empty entry have been merged, beside
\* a complete one
PartialEntryMerged ==
    /\ Len(merge_log) = 2
    /\ merge_log[1] = <<[key |-> "EBS Volumes", val |-> ProbeResult(Findings(1))],
                        [key |-> "Snapshots", val |-> EmptyDict]>>
    /\ merge_log[2] = <<[key |-> "EBS Volumes",
                         val |-> [savings |-> SumSavings(Findings(2)),
                                  items |-> Findings(2)]]>>
    /\ Lookup(results.categories, "EBS Volumes").count = 1
    /\ Lookup(results.categories, "EBS Volumes").items = Findings(1) \o Findings(2)
    /\ Lookup(results.categories, "Snapshots")
          = [count |-> 0, savings |-> Zero, items |-> <<>>]

\* C8: a failure of one selected provider never aborts the merging of the others:
\* while providers remain after the one being analyzed, analyze stays in its loop
\* and goes on to them, and no analyze call ends by an exception.
ProviderFailureAbsorbed ==
    [][pc = "scan" /\ pos < Len(providers_to_analyze)
         => pc' = "scan" /\ pos' = pos + 1 /\ outcome' # "raised"]_vars

\* C9: _calculate_priority is High if savings > 10000 or count > 50, else Medium
\* if savings > 1000 or count > 10, else Low, the comparisons strict.  The amount
\* is read in cents, the argument of the call being the float of that amount.
PriorityThresholds ==
    probe.out # <<>> =>
        LET s == probe.cents
            c == probe.count
        IN  /\ probe.out[1] = "High" <=> (s > 1000000 \/ c > 50)
            /\ probe.out[1] = "Medium" <=>
                  (~(s > 1000000 \/ c > 50) /\ (s > 100000 \/ c > 10))
            /\ probe.out[1] = "Low" <=> (s <= 100000 /\ c <= 10)
            /\ (s = 1000100 /\ c = 0) => probe.out[1] = "High"
            /\ (s = 0 /\ c = 51) => probe.out[1] = "High"
            /\ (s = 100100 /\ c = 0) => probe.out[1] = "Medium"
            /\ (s = 100000 /\ c = 10) => probe.out[1] = "Low"

\* C9 witness: the call with both arguments exactly at the Medium thresholds
PriorityAtThresholds ==
    /\ probe.out # <<>>
    /\ probe.cents = 100000
    /\ probe.savings = Float(1000)
    /\ probe.count = 10

\* C10: no recommendation returned by enhance_recommendations names a category
\* whose bucket has no count or a count that is not greater than 0.
NoRecommendationWithoutFindings ==
    probe.out # <<>> =>
        \A i \in 1..Len(probe.out[1]) :
            \E j \in 1..Len(probe.categories) :
                /\ probe.categories[j].key = probe.out[1][i].category
                /\ "count" \in DOMAIN probe.categories[j].val
                /\ probe.categories[j].val.count > 0

\* C10 witness: a map with a zero-count bucket that has savings, a bucket without
\* count, and a bucket with findings, which alone is recommended
ZeroCountSkipped ==
    /\ probe.out # <<>>
    /\ Len(probe.categories) = 3
    /\ \E j \in 1..3 :
          probe.categories[j].val = [count |-> 0, savings |-> Float(500), items |-> <<>>]
    /\ \E j \in 1..3 : probe.categories[j].val = [savings |-> Float(900)]
    /\ Len(probe.out[1]) = 1

-----------------------------------------------------------------------------
(* Properties of the recommendation engine *)

\* The values of field f along a list of recommendations
Column(recs, f) == [i \in 1..Len(recs) |-> recs[i][f]]

\* The place of key k in a category map
Position(categories, k) == CHOOSE i \in 1..Len(categories) : categories[i].key = k

\* The entries of a category map that have findings, in the order of the map
WithFindings(categories) ==
    SelectSeq(categories, LAMBDA e : "count" \in DOMAIN e.val /\ e.val.count > 0)

\* C11: the sequence returned by enhance_recommendations is sorted by
\* total_savings in descending order: of two adjacent entries the earlier one's
\* total_savings is greater than or equal to the later one's.
SortedBySavingsDescending ==
    probe.out # <<>> =>
        \A i \in 1..(Len(probe.out[1]) - 1) :
            FloatLeq(probe.out[1][i + 1].total_savings, probe.out[1][i].total_savings)

\* C11 witness: three recommendations were returned for a map that lists its
\* categories by ascending savings
AscendingMapSorted ==
    /\ probe.out # <<>>
    /\ Len(probe.categories) = 3
    /\ Column(WithFindings(probe.categories), "key") = Column(probe.categories, "key")
    /\ \A i \in 1..2 : FloatLess(Get(probe.categories[i].val, "savings", Zero),
                                   Get(probe.categories[i + 1].val, "savings", Zero))
    /\ Len(probe.out[1]) = 3

\* C12: recommendations of equal total_savings come in the insertion order of
\* their categories in the map, and the output is the stable descending sort of
\* the map's order: one entry per category with findings, a larger total_savings
\* first, and for categories A (500), B (500), C (900) the output is C, A, B.
TiesInInsertionOrder ==
    probe.out # <<>> =>
        LET out == probe.out[1]
            found == WithFindings(probe.categories)
        IN  /\ Len(out) = Len(found)
            /\ {out[i].category : i \in 1..Len(out)} = {found[i].key : i \in 1..Len(found)}
            /\ \A i, j \in 1..Len(out) :
                  i < j =>
                     \/ FloatLess(out[j].total_savings, out[i].total_savings)
                     \/ /\ out[i].total_savings = out[j].total_savings
                        /\ Position(probe.categories, out[i].category)
                             < Position(probe.categories, out[j].category)
            /\ (/\ Len(found) = 3
                /\ Len(probe.categories) = 3
                /\ [i \in 1..3 |-> Get(found[i].val, "savings", Zero)]
                      = <<Float(500), Float(500), Float(900)>>)
               => Column(out, "category") = <<found[3].key, found[1].key, found[2].key>>

\* C12 witness: A and B with savings 500 and C with savings 900, inserted in that
\* order, came out as C, A, B
TieOfTwoKeptOrder ==
    /\ probe.out # <<>>
    /\ Column(probe.categories, "key") = <<"EC2 Instances", "EBS Volumes", "Elastic IPs">>
    /\ Column(probe.categories, "val") =
          << [count |-> 5, savings |-> Float(500), items |-> <<>>],
             [count |-> 5, savings |-> Float(500), items |-> <<>>],
             [count |-> 60, savings |-> Float(900), items |-> <<>>] >>
    /\ Column(probe.out[1], "category") = <<"Elastic IPs", "EC2 Instances", "EBS Volumes">>

\* A recommendation as the callers read it: a priority, a risk and an effort of
\* the fixed scales, a count of findings and an average that was computed
ValidRecommendation(r) ==
    /\ r.priority \in {"High", "Medium", "Low"}
    /\ r.risk_level \in {"Medium", "Low", "Very Low"}
    /\ r.effort \in {"Low", "Medium"}
    /\ r.finding_count > 0
    /\ FloatLeq(Zero, r.total_savings)
    /\ r.average_savings_per_item # ZeroDivisionError

\* C13: when enhanced generation raises at call time, enhance_recommendations
\* returns exactly what the basic path returns for that call, and every call
\* returns a sequence of valid recommendations: no call ends by an error.
FallbackReturnsBasic ==
    probe.out # <<>> =>
        /\ probe.raised => probe.out[1] = GenerateBasicRecommendations(probe.categories)
        /\ \A i \in 1..Len(probe.out[1]) : ValidRecommendation(probe.out[1][i])

\* C13 witness: the enhanced path of an enabled engine raised, and the call
\* returned two recommendations
RaisedAndRecovered ==
    /\ probe.out # <<>>
    /\ probe.enabled
    /\ probe.raised
    /\ Len(probe.out[1]) = 2

\* C14: the mode is selected at construction and stays: enabled is true exactly
\* when the ai section asks for enhanced mode and OPENAI_API_KEY is present, so
\* an engine asked for enhanced mode without the key is constructed in basic
\* mode, and no call changes enabled.
ModeSelectedAtConstruction ==
    /\ [](probe.enabled <=> (Get(probe.ai, "enabled", FALSE) /\ api_key))
    /\ [][probe'.enabled = probe.enabled]_vars

\* C14 witness: an engine asked for enhanced mode without the key is in basic
\* mode after a call that returned recommendations
DowngradedEngineCalled ==
    /\ probe.ai = [enabled |-> TRUE]
    /\ ~api_key
    /\ ~probe.enabled
    /\ probe.out # <<>>
    /\ Len(probe.out[1]) > 0

\* C15: with enhanced mode requested and no credential, the recommendations are
\* those an engine with enhanced mode disabled returns for the same categories:
\* the same entries with the same fields in the same order.
KeylessMatchesDisabled ==
    (probe.out # <<>> /\ Get(probe.ai, "enabled", FALSE) /\ ~api_key) =>
        probe.out[1] = EnhanceRecommendations(EngineEnabled([enabled |-> FALSE], api_key),
                                              probe.categories, FALSE)

\* C15 witness: enhanced mode was requested without the key, and the call
\* returned three recommendations
KeylessReturnedThree ==
    /\ probe.out # <<>>
    /\ probe.ai = [enabled |-> TRUE]
    /\ ~api_key
    /\ Len(probe.out[1]) = 3

\* C16: the enhanced path delegates to the basic path: an enabled engine whose
\* enhanced path ran to its end returns exactly the list the basic path returns
\* for the same map.
EnhancedIsBasic ==
    (probe.out # <<>> /\ probe.enabled /\ ~probe.raised) =>
        probe.out[1] = GenerateBasicRecommendations(probe.categories)

\* C16 witness: an enabled engine, with the key, returned the recommendations of
\* a map of ascending savings without its enhanced path raising
EnhancedPathRan ==
    /\ probe.out # <<>>
    /\ probe.ai = [enabled |-> TRUE]
    /\ api_key
    /\ probe.enabled
    /\ ~probe.raised
    /\ Len(probe.out[1]) = 3
    /\ probe.out[1][1].category = probe.categories[3].key

\* C17: a category name the remedy table does not have yields a recommendation
\* with the text "Review and optimize resources", risk_level "Very Low" and
\* effort "Medium"; the lookup fails for no name, every category with findings
\* has its recommendation.
UnknownCategoryDefaults ==
    probe.out # <<>> =>
        /\ \A i \in 1..Len(probe.out[1]) :
              probe.out[1][i].category \notin KnownCategories =>
                  /\ probe.out[1][i].recommendation = "Review and optimize resources"
                  /\ probe.out[1][i].risk_level = "Very Low"
                  /\ probe.out[1][i].effort = "Medium"
        /\ \A j \in 1..Len(probe.categories) :
              Get(probe.categories[j].val, "count", 0) > 0 =>
                  \E i \in 1..Len(probe.out[1]) :
                      /\ probe.out[1][i].category = probe.categories[j].key
                      /\ probe.out[1][i].recommendation # None

\* C17 witness: a recommendation was returned for the category "Widgets", beside
\* one for a category of the table
UnknownCategoryRecommended ==
    /\ probe.out # <<>>
    /\ \E i \in 1..Len(probe.out[1]) : probe.out[1][i].category = "Widgets"
    /\ \E i \in 1..Len(probe.out[1]) : probe.out[1][i].category = "EBS Volumes"

\* C18: for every category name, _assess_risk is Medium exactly for EC2
\* Instances, RDS Databases, Virtual Machines and Compute Instances, Low exactly
\* for EBS Volumes, Managed Disks and Persistent Disks, and Very Low otherwise.
RiskByCategory ==
    probe.risk_level # <<>> =>
        LET c == probe.category
            r == probe.risk_level[1]
            high == {"EC2 Instances", "RDS Databases", "Virtual Machines", "Compute Instances"}
            medium == {"EBS Volumes", "Managed Disks", "Persistent Disks"}
        IN  /\ r = "Medium" <=> c \in high
            /\ r = "Low" <=> c \in medium
            /\ r = "Very Low" <=> c \notin high \cup medium

\* C18 witness: the risk of Persistent Disks was assessed as Low
RiskOfPersistentDisks ==
    probe.category = "Persistent Disks" /\ probe.risk_level = <<"Low">>

\* C19: for every category name, _assess_effort is Low exactly for Elastic IPs,
\* EBS Volumes, Managed Disks and Persistent Disks, and Medium otherwise.
EffortByCategory ==
    probe.effort # <<>> =>
        LET c == probe.category
            e == probe.effort[1]
            low == {"Elastic IPs", "EBS Volumes", "Managed Disks", "Persistent Disks"}
        IN  /\ e = "Low" <=> c \in low
            /\ e = "Medium" <=> c \notin low

\* C19 witness: the effort of Elastic IPs was assessed as Low
EffortOfElasticIps ==
    probe.category = "Elastic IPs" /\ probe.effort = <<"Low">>

\* The categories of the end-to-end example in the order the example gives them
ExampleAsGiven(m) ==
    Column(m, "key") = <<"EC2 Instances", "EBS Volumes", "Elastic IPs">>

\* C20 as stated: for EC2 Instances {23, 18450}, EBS Volumes {156, 12340} and
\* Elastic IPs {12, 43.20} the recommendations are ordered EC2 Instances, EBS
\* Volumes, Elastic IPs with the priorities High, High, Low.
ExamplePrioritiesAsStated ==
    (probe.out # <<>> /\ probe.categories \in ExampleMaps /\ ExampleAsGiven(probe.categories)) =>
        /\ Column(probe.out[1], "category") = <<"EC2 Instances", "EBS Volumes", "Elastic IPs">>
        /\ Column(probe.out[1], "priority") = <<"High", "High", "Low">>

\* C20 amended: for the same categories, in any insertion order, the
\* recommendations are ordered EC2 Instances, EBS Volumes, Elastic IPs with the
\* priorities High, High, Medium: the 12 findings of Elastic IPs exceed 10.
ExamplePriorities ==
    (probe.out # <<>> /\ probe.categories \in ExampleMaps) =>
        /\ Column(probe.out[1], "category") = <<"EC2 Instances", "EBS Volumes", "Elastic IPs">>
        /\ Column(probe.out[1], "priority") = <<"High", "High", "Medium">>
        /\ Column(probe.out[1], "finding_count") = <<23, 156, 12>>
        /\ Column(probe.out[1], "total_savings")
              = <<Float(18450), Float(12340), Decimal(432, 1)>>

\* C20 witness: the example's map, in the order given, went through the engine
ExampleRecommended ==
    /\ probe.out # <<>>
    /\ probe.categories \in ExampleMaps
    /\ ExampleAsGiven(probe.categories)
    /\ Len(probe.out[1]) = 3

\* C21: every recommendation has finding_count > 0 and an
\* average_savings_per_item equal to total_savings / finding_count, the float
\* quotient, and the division is never by zero, also for maps with zero-count or
\* count-less buckets.
AverageIsSavingsPerFinding ==
    probe.out # <<>> =>
        \A i \in 1..Len(probe.out[1]) :
            LET r == probe.out[1][i]
            IN  /\ r.finding_count > 0
                /\ r.average_savings_per_item # ZeroDivisionError
                /\ r.average_savings_per_item
                      = FloatOver(r.total_savings, r.finding_count)

\* C21 witness: the example's Elastic IPs, 43.20 over 12 findings, got the
\* average 3.6, and EC2 Instances, 18450 over 23, one between 802.17 and 802.18
AverageOfExample ==
    /\ probe.out # <<>>
    /\ probe.categories \in ExampleMaps
    /\ \E i \in 1..Len(probe.out[1]) :
          /\ probe.out[1][i].category = "Elastic IPs"
          /\ probe.out[1][i].average_savings_per_item = Decimal(36, 1)
    /\ \E i \in 1..Len(probe.out[1]) :
          /\ probe.out[1][i].category = "EC2 Instances"
          /\ FloatLess(Decimal(80217, 2), probe.out[1][i].average_savings_per_item)
          /\ FloatLess(probe.out[1][i].average_savings_per_item, Decimal(80218, 2))

\* C28: enhance_recommendations returns exactly one entry for each category of
\* the map whose count is greater than 0 and no other entry, each with the
\* bucket's count as finding_count and the bucket's savings as total_savings; so
\* the total_savings of the recommendations add up to the savings of those
\* buckets, the two sums taken as numbers.
OneRecommendationPerCategory ==
    probe.out # <<>> =>
        LET out == probe.out[1]
            found == WithFindings(probe.categories)
        IN  /\ \A j \in 1..Len(found) :
                  Cardinality({i \in 1..Len(out) : out[i].category = found[j].key}) = 1
            /\ \A i \in 1..Len(out) :
                  \E j \in 1..Len(found) :
                      /\ found[j].key = out[i].category
                      /\ out[i].finding_count = found[j].val.count
                      /\ out[i].total_savings = Get(found[j].val, "savings", Zero)
            /\ SameNumber(ExactSum(Column(out, "total_savings")),
                          ExactSum([j \in 1..Len(found) |->
                                       Get(found[j].val, "savings", Zero)]))

\* C28 witness: of three categories the two with findings were recommended, one
\* of them a bucket that has a count and nothing else
TwoOfThreeRecommended ==
    /\ probe.out # <<>>
    /\ Len(probe.categories) = 3
    /\ \E j \in 1..3 : probe.categories[j].val = [count |-> 3]
    /\ \E j \in 1..3 :
          probe.categories[j].val = [count |-> 0, savings |-> Float(500), items |-> <<>>]
    /\ Len(probe.out[1]) = 2
    /\ SameNumber(ExactSum(Column(probe.out[1], "total_savings")), Float(900))

\* Low < Medium < High
Rank(priority) ==
    CASE priority = "Low" -> 0
      [] priority = "Medium" -> 1
      [] priority = "High" -> 2

\* C30: priority is monotone in impact: for savings s <= s' and counts c <= c',
\* _calculate_priority(s, c) is not above _calculate_priority(s', c') in the order
\* Low < Medium < High, so further findings never lower a category's priority.
PriorityMonotone ==
    probe.again # <<>> =>
        /\ probe.cents <= probe.again[1].cents
        /\ FloatLeq(probe.savings, probe.again[1].savings)
        /\ probe.count <= probe.again[1].count
        /\ Rank(probe.out[1]) <= Rank(probe.again[1].out)

\* C30 witness: a category of 5 findings and 500 was Low, and High once it had
\* 51 findings
PriorityRoseWithCount ==
    /\ probe.again # <<>>
    /\ probe.savings = Float(500) /\ probe.count = 5 /\ probe.out = <<"Low">>
    /\ probe.again[1] = [cents |-> 50000, savings |-> Float(500), count |-> 51,
                         out |-> "High"]

-----------------------------------------------------------------------------
(* Properties of the analyzer's run *)

\* The ai.enabled flag as the configuration holds it
AiFlag ==
    /\ "ai" \in DOMAIN config
    /\ "enabled" \in DOMAIN config.ai
    /\ config.ai.enabled

\* The step of analyze on which the engine runs
EngineRuns == pc = "scan" /\ pc' = "save" /\ AiFlag

\* What the engine may return for the categories the run result holds
EngineOutputs ==
    { EnhanceRecommendations(EngineEnabled(Get(config, "ai", EmptyDict), api_key),
                             results.categories, raises) : raises \in BOOLEAN }

\* aws before azure before gcp
ProviderRank(prov) ==
    CASE prov = "aws" -> 1
      [] prov = "azure" -> 2
      [] prov = "gcp" -> 3

\* C26: a newly constructed CloudAnalyzer, whatever its configuration, holds a
\* run result with the keys timestamp, categories, recommendations and
\* total_savings, with no category, no recommendation and a total_savings of 0.
NewAnalyzerIsEmpty ==
    calls = 0 =>
        /\ DOMAIN results = {"timestamp", "categories", "recommendations", "total_savings"}
        /\ results.categories = <<>>
        /\ results.recommendations = <<>>
        /\ results.total_savings = Zero

\* C26 witness: an analyzer constructed with all providers and ai enabled, before
\* its first analyze call
ConfiguredAnalyzerConstructed ==
    /\ calls = 0
    /\ pc = "idle"
    /\ config = ConfigAllWithIds
    /\ saved = <<>>

\* C27: analyze runs the engine only when ai.enabled is true: the run result it
\* returns, which is the one it saved, has no recommendation when the flag is
\* false or absent, whatever was found, and one recommendation per category with
\* count > 0 when the flag is true, with the credential or without.
EngineOnlyWhenRequested ==
    (pc = "idle" /\ outcome = "returned") =>
        /\ saved = <<results>>
        /\ ~AiFlag => results.recommendations = <<>>
        /\ AiFlag =>
              LET found == WithFindings(results.categories)
              IN  /\ Len(results.recommendations) = Len(found)
                  /\ {results.recommendations[i].category :
                         i \in 1..Len(results.recommendations)}
                        = {found[i].key : i \in 1..Len(found)}

\* C27 witness: an analyze call returned findings and no recommendation, the
\* configuration having no ai section
ReturnedFindingsWithoutEngine ==
    /\ pc = "idle"
    /\ outcome = "returned"
    /\ config = EmptyDict
    /\ FloatLess(Zero, results.total_savings)
    /\ results.recommendations = <<>>
    /\ saved = <<results>>

\* C22: the recommendations of the run result are empty until the engine runs,
\* change only on the step on which it runs, and are then the engine's output
\* for the categories of the result, replacing what the field held.
RecommendationsReplacedByEngine ==
    /\ results.recommendations = <<>>
    /\ [][ /\ results'.recommendations # results.recommendations => EngineRuns
           /\ EngineRuns => results'.recommendations \in EngineOutputs ]_vars

\* C22 witness: the engine ran in a second analyze call on the same analyzer and
\* left a sequence that differs from the non-empty one of the first call
RecommendationsReplaced ==
    /\ pc = "save"
    /\ calls = 2
    /\ AiFlag
    /\ saved # <<>>
    /\ saved[1].recommendations # <<>>
    /\ results.recommendations # <<>>
    /\ results.recommendations # saved[1].recommendations
    /\ Len(results.recommendations) = Len(WithFindings(results.categories))

\* C23: within one analyze call the providers are scanned and merged in the
\* order aws, azure, gcp, each at most once; the categories change only on a
\* scan step, the recommendations only on the step that follows the last scan,
\* and the file is written after that, holding the result as it then stands.
SequentialOrder ==
    /\ [](/\ \A i, j \in 1..Len(providers_to_analyze) :
                i < j => ProviderRank(providers_to_analyze[i])
                            < ProviderRank(providers_to_analyze[j])
          /\ pc = "scan" => pos \in 1..(Len(providers_to_analyze) + 1)
          /\ (pc = "save" /\ AiFlag) => results.recommendations \in EngineOutputs
          /\ (pc = "idle" /\ outcome = "returned") => saved = <<results>>)
    /\ [][ /\ results'.categories # results.categories =>
                /\ pc = "scan" /\ pc' = "scan"
                /\ pos \in 1..Len(providers_to_analyze)
                /\ pos' = pos + 1
           /\ results'.recommendations # results.recommendations =>
                /\ pc = "scan" /\ pc' = "save"
                /\ pos = Len(providers_to_analyze) + 1
           /\ saved' # saved =>
                /\ pc = "save" /\ pc' = "idle"
                /\ results' = results
                /\ saved' = <<results>> ]_vars

\* C23 witness: a call over the three providers returned with categories of aws,
\* azure and gcp merged, recommendations derived and the result saved
ThreeProvidersInOrder ==
    /\ pc = "idle"
    /\ outcome = "returned"
    /\ calls = 1
    /\ Has(results.categories, "EC2 Instances")
    /\ Has(results.categories, "Virtual Machines")
    /\ Has(results.categories, "Compute Instances")
    /\ results.recommendations # <<>>
    /\ saved = <<results>>

\* C29: the engine's run leaves the categories and the total of the result as
\* they were, and run again on categories equal to those of the previous run it
\* yields the sequence of recommendations the previous run yielded.
EngineIsPure ==
    [][ EngineRuns =>
          /\ results'.categories = results.categories
          /\ results'.total_savings = results.total_savings
          /\ DOMAIN results' = DOMAIN results
          /\ (saved # <<>> /\ saved[1].categories = results.categories)
                => results'.recommendations = saved[1].recommendations ]_vars

\* C29 witness: the engine ran a second time over an unchanged non-empty
\* category map and returned the recommendations of the first run
EngineRanTwiceSameOutput ==
    /\ pc = "save"
    /\ calls = 2
    /\ AiFlag
    /\ saved # <<>>
    /\ saved[1].categories = results.categories
    /\ WithFindings(results.categories) # <<>>
    /\ results.recommendations = saved[1].recommendations

-----------------------------------------------------------------------------
(* Properties of the generated scripts *)

\* A statement that creates, changes or deletes a resource when the file is
\* applied or run
ResourceChanging(st) ==
    st.statement \in {"resource aws_ebs_volume",
                      "resource aws_s3_bucket_lifecycle_configuration",
                      "aws ec2 delete-volume", "aws ec2 release-address",
                      "az disk delete", "gcloud compute disks delete"}

\* C25: every resource-changing statement that ScriptGenerator emits, the
\* Terraform resource blocks of main.tf and the delete and release commands of
\* the cleanup scripts, is commented out, for any analysis data.
GeneratedScriptsAdvisory ==
    \A f \in DOMAIN probe.files :
        \A i \in 1..Len(probe.files[f]) :
            ResourceChanging(probe.files[f][i]) => probe.files[f][i].commented

-----------------------------------------------------------------------------
(* Properties of two merges at once *)

\* The threads that completed their merge
Merged == {t \in Threads : ThreadAt(t, "done")}

RECURSIVE CountOf(_)
\* The findings the threads of S contributed
CountOf(S) ==
    IF S = {} THEN 0
    ELSE LET t == CHOOSE x \in S : TRUE
         IN  probe.threads[t].data.count + CountOf(S \ {t})

RECURSIVE Serial(_, _)
\* What adding the savings of the threads of S to start, one merge after the
\* other, can give: one sum for each order of the merges
Serial(start, S) ==
    IF S = {} THEN {start}
    ELSE UNION { Serial(FloatAdd(start, probe.threads[t].data.savings), S \ {t}) : t \in S }

\* The bucket the merges started from
BaseBucket == BucketOrZero(probe.base.categories, SharedCategory)

\* C24: when the merges are applied one at a time under mutual exclusion no
\* update is lost: at most one thread is inside its merge, and whenever none is,
\* the bucket's count and savings and total_savings are what was there plus the
\* contributions of the completed merges, count is the length of items, savings
\* the sum of the items' estimates and total_savings the sum of the buckets'.
GuardedMergesLoseNothing ==
    probe.guarded =>
        /\ Cardinality({t \in Threads : ~ThreadAt(t, "start") /\ ~ThreadAt(t, "done")}) <= 1
        /\ probe.lock = {} =>
              LET b == BucketOrZero(results.categories, SharedCategory)
              IN  /\ b.count = BaseBucket.count + CountOf(Merged)
                  /\ b.savings \in Serial(BaseBucket.savings, Merged)
                  /\ results.total_savings \in Serial(probe.base.total_savings, Merged)
                  /\ b.count = Len(b.items)
                  /\ b.savings = ItemSavings(b.items)
                  /\ results.total_savings = BucketSavings(results.categories)

=============================================================================
